---- MODULE Spec2Model ----
(***************************************************************************)
(* Model of google/cloud/dataflow/transforms/core.py: the CombineFn        *)
(* accumulator protocol, CombineValuesDoFn, the Windowing policy and the   *)
(* local GroupByKey expansion (reify, group-by-key-only, group-also-by-    *)
(* window).                                                                *)
(***************************************************************************)
EXTENDS Integers, Sequences, FiniteSets, TLC

\* ------------------------------------------------------------------ bounds
MaxLen == 3
MaxBatches == 2
MaxValuesLen == 4
MaxFolds == 2
MaxElems == 3
MaxPolicies == 2
MaxVs == 3
MaxFollowUps == 1
MaxN == 2
MaxPackages == 2
MaxClones == 2
MaxSets == 2

\* the input values: the identity of sum, the identity of the product, and
\* a value that is neither
Values == {0, 1, 2}

SeqsUpTo(S, n) == UNION {[1..k -> S] : k \in 0..n}

\* --------------------------------------------------------- python values
\* Every Python value the combiners handle is one record, so that values of
\* different Python types can be compared.
PyVal(kind, x, n) == [kind |-> kind, x |-> x, n |-> n]

\* CallableWrapperCombineFn._EMPTY = object()
EMPTY == PyVal("_EMPTY", 0, 0)

PyInt(v) == PyVal("int", v, 0)

\* a (sum, count) tuple, the accumulator of AverageFn
PyPair(s, c) == PyVal("tuple", s, c)

\* a raised exception, named by its class
Raise(exc) == PyVal(exc, 0, 0)

Raised(v) == v.kind \in {"TypeError", "ValueError"}

GCD(a, b) ==
  LET G[p \in (0..a) \X (0..b)] ==
        IF p[2] = 0 THEN p[1] ELSE G[<<p[2], p[1] % p[2]>>]
  IN G[<<a, b>>]

\* sum / count with sum a float: the quotient, kept as a reduced fraction
PyFloatDiv(s, c) ==
  LET g == GCD(IF s > c THEN s ELSE c, IF s > c THEN c ELSE s)
  IN PyVal("float", s \div g, c \div g)

NaN == PyVal("float", 0, 0)

PyInts(seq) == [i \in 1..Len(seq) |-> PyInt(seq[i])]

AllInts(seq) == \A i \in 1..Len(seq) : seq[i].kind = "int"

\* ------------------------------------------------- the wrapped callables
\* the builtin sum: start 0, int + object() is a TypeError
sum(seq) ==
  LET F[i \in 0..Len(seq)] == IF i = 0 THEN 0 ELSE F[i - 1] + seq[i].x
  IN IF AllInts(seq) THEN PyInt(F[Len(seq)]) ELSE Raise("TypeError")

\* combiners_test.multiply: result = 1; result *= v
multiply(seq) ==
  LET F[i \in 0..Len(seq)] == IF i = 0 THEN 1 ELSE F[i - 1] * seq[i].x
  IN IF AllInts(seq) THEN PyInt(F[Len(seq)]) ELSE Raise("TypeError")

\* Python 2 ordering: a number is smaller than any other object
PyLess(a, b) ==
  \/ a.kind = "int" /\ b.kind = "int" /\ a.x < b.x
  \/ a.kind = "int" /\ b.kind # "int"

\* the builtin min: ValueError on an empty sequence, first smallest item
min(seq) ==
  LET F[i \in 1..Len(seq)] ==
        IF i = 1 THEN seq[1]
        ELSE IF PyLess(seq[i], F[i - 1]) THEN seq[i] ELSE F[i - 1]
  IN IF Len(seq) = 0 THEN Raise("ValueError") ELSE F[Len(seq)]

Callables == {"sum", "multiply", "min"}

\* self._fn(iterable)
Fn(fn, seq) ==
  CASE fn = "sum" -> sum(seq)
    [] fn = "multiply" -> multiply(seq)
    [] fn = "min" -> min(seq)

\* ------------------------------------------------ snippets_test.AverageFn
AverageFn_create_accumulator == PyPair(0, 0)

AverageFn_add_input(acc, input) == PyPair(acc.x + input.x, acc.n + 1)

\* sums, counts = zip(*accumulators): unpacking the empty zip fails
AverageFn_merge_accumulators(accs) ==
  LET S[i \in 0..Len(accs)] == IF i = 0 THEN 0 ELSE S[i - 1] + accs[i].x
      C[i \in 0..Len(accs)] == IF i = 0 THEN 0 ELSE C[i - 1] + accs[i].n
  IN IF Len(accs) = 0 THEN Raise("ValueError")
     ELSE PyPair(S[Len(accs)], C[Len(accs)])

AverageFn_extract_output(acc) ==
  IF acc.n # 0 THEN PyFloatDiv(acc.x, acc.n) ELSE NaN

CombineFns == Callables \cup {"AverageFn"}

\* ------------------------------------------------------------- CombineFn
create_accumulator(cf) ==
  IF cf = "AverageFn" THEN AverageFn_create_accumulator ELSE EMPTY

\* CombineFn.add_inputs: the default loop over add_input
CombineFn_add_inputs(acc, elems) ==
  LET F[i \in 0..Len(elems)] ==
        IF i = 0 THEN acc ELSE AverageFn_add_input(F[i - 1], elems[i])
  IN F[Len(elems)]

\* add_inputs that forgets the accumulator it was given
add_inputs_DropsAccumulator(fn, acc, elems) == Fn(fn, elems)

\* CallableWrapperCombineFn.add_inputs
CallableWrapperCombineFn_add_inputs(fn, acc, elems) ==
  IF acc # EMPTY THEN Fn(fn, <<acc>> \o elems) ELSE Fn(fn, elems)

add_inputs(cf, acc, elems) ==
  IF cf = "AverageFn" THEN CombineFn_add_inputs(acc, elems)
  ELSE CallableWrapperCombineFn_add_inputs(cf, acc, elems)

\* merge_accumulators that leaves the last accumulator out
merge_accumulators_DropsLast(fn, accs) ==
  Fn(fn, SubSeq(accs, 1, Len(accs) - 1))

\* CallableWrapperCombineFn.merge_accumulators
CallableWrapperCombineFn_merge_accumulators(fn, accs) == Fn(fn, accs)

merge_accumulators(cf, accs) ==
  IF cf = "AverageFn" THEN AverageFn_merge_accumulators(accs)
  ELSE CallableWrapperCombineFn_merge_accumulators(cf, accs)

\* extract_output without the special case of the sentinel
extract_output_KeepsSentinel(fn, acc) == acc

\* CallableWrapperCombineFn.extract_output
CallableWrapperCombineFn_extract_output(fn, acc) ==
  IF acc = EMPTY THEN Fn(fn, <<>>) ELSE acc

extract_output(cf, acc) ==
  IF cf = "AverageFn" THEN AverageFn_extract_output(acc)
  ELSE CallableWrapperCombineFn_extract_output(cf, acc)

\* CombineFn.apply: an exception of add_inputs propagates
apply(cf, elems) ==
  LET acc == add_inputs(cf, create_accumulator(cf), elems)
  IN IF Raised(acc) THEN acc ELSE extract_output(cf, acc)

\* ---------------------------------- wrapped callables with extra arguments
\* snippets_test.bounded_sum: the default of its keyword argument `bound`
DEFAULT_BOUND == 500

\* sum(iterable, start)
sum_start(seq, start) ==
  LET s == sum(seq)
  IN IF Raised(s) \/ start.kind # "int" THEN Raise("TypeError")
     ELSE PyInt(start.x + s.x)

\* snippets_test.bounded_sum: min(sum(values), bound)
bounded_sum(seq, bound) ==
  LET s == sum(seq)
  IN IF Raised(s) THEN s
     ELSE IF s.x < bound THEN s ELSE PyInt(bound)

\* functools.partial(reduce, operator.mul): reduce(mul, seq[, initial]);
\* an empty sequence with no initial value is a TypeError, a single item
\* is returned as it is
reduce_mul(seq, initial) ==
  LET items == initial \o seq
      F[i \in 0..Len(items)] == IF i = 0 THEN 1 ELSE F[i - 1] * items[i].x
  IN IF items = <<>> THEN Raise("TypeError")
     ELSE IF Len(items) = 1 THEN items[1]
     ELSE IF AllInts(items) THEN PyInt(F[Len(items)])
     ELSE Raise("TypeError")

\* the callables of the snippets and the extra arguments they are used with
WrappedCalls ==
  ({"sum", "multiply", "min", "bounded_sum", "reduce_mul"} \X {<<>>})
    \cup ({"sum", "bounded_sum", "reduce_mul"}
            \X {<<PyInt(v)>> : v \in Values})

\* self._fn(iterable, *args)
FnArgs(fn, seq, fnargs) ==
  CASE fnargs = <<>> /\ fn \in Callables -> Fn(fn, seq)
    [] fnargs # <<>> /\ fn = "sum" -> sum_start(seq, fnargs[1])
    [] fn = "bounded_sum" ->
         bounded_sum(seq, IF fnargs = <<>> THEN DEFAULT_BOUND
                          ELSE fnargs[1].x)
    [] fn = "reduce_mul" -> reduce_mul(seq, fnargs)

\* CallableWrapperCombineFn.create_accumulator(*args)
CallableWrapperCombineFn_create_accumulator(fnargs) == EMPTY

\* the generator `union` of add_inputs
union(acc, elems) == IF acc # EMPTY THEN <<acc>> \o elems ELSE elems

\* CallableWrapperCombineFn.add_inputs(accumulator, elements, *args)
CallableWrapperCombineFn_add_inputs_args(fn, acc, elems, fnargs) ==
  FnArgs(fn, union(acc, elems), fnargs)

\* CallableWrapperCombineFn.add_input(accumulator, element, *args):
\* `self.add_inputs([element], *args)` binds the list [element] to the
\* parameter `accumulator` and the first extra argument to `elements`.
\* With no extra argument the call is short of an argument; with a number
\* as the extra argument `for e in elements` iterates over a number. Both
\* are TypeErrors.
CallableWrapperCombineFn_add_input(fn, acc, element, fnargs) ==
  IF fnargs = <<>> THEN Raise("TypeError")
  ELSE IF fnargs[1].kind = "int" THEN Raise("TypeError")
  ELSE FnArgs(fn, <<PyVal("list", element.x, 1)>> \o <<fnargs[1]>>,
              Tail(fnargs))

\* CallableWrapperCombineFn.merge_accumulators(accumulators, *args)
CallableWrapperCombineFn_merge_accumulators_args(fn, accs, fnargs) ==
  FnArgs(fn, accs, fnargs)

\* CallableWrapperCombineFn.extract_output(accumulator, *args): self._fn(())
\* is called without the extra arguments
CallableWrapperCombineFn_extract_output_args(fn, acc, fnargs) ==
  IF acc = EMPTY THEN FnArgs(fn, <<>>, <<>>) ELSE acc

\* CombineFn.apply(elements, *args)
CombineFn_apply_args(fn, elems, fnargs) ==
  LET acc == CallableWrapperCombineFn_add_inputs_args(
               fn, CallableWrapperCombineFn_create_accumulator(fnargs),
               elems, fnargs)
  IN IF Raised(acc) THEN acc
     ELSE CallableWrapperCombineFn_extract_output_args(fn, acc, fnargs)

\* elements[k:k+1] in place of elements[k::3]
Slice_NoStride(elems, k) ==
  IF k < Len(elems) THEN <<elems[k + 1]>> ELSE <<>>

\* CombineValuesDoFn.process, the branch taken when runtime_type_check is
\* off: three round-robin accumulators, merge, extract.  elements[k::3]
Slice(elems, k) ==
  LET F[i \in 0..Len(elems)] ==
        IF i = 0 THEN <<>>
        ELSE IF (i - 1) % 3 = k THEN Append(F[i - 1], elems[i]) ELSE F[i - 1]
  IN F[Len(elems)]

\* the accumulators list after the loop `for k in range(3)`
ThreeAccumulators(cf, elems) ==
  LET n == IF Len(elems) < 3 THEN Len(elems) ELSE 3
  IN [k \in 1..n |-> add_inputs(cf, create_accumulator(cf), Slice(elems, k - 1))]

FirstRaised(accs) ==
  LET bad == {i \in 1..Len(accs) : Raised(accs[i])}
  IN accs[CHOOSE i \in bad : \A j \in bad : i <= j]

CombineValuesDoFn_process(cf, rtc, key, elems) ==
  IF rtc THEN <<key, apply(cf, elems)>>
  ELSE LET accs == ThreeAccumulators(cf, elems)
           acc == merge_accumulators(cf, accs)
       IN IF \E i \in 1..Len(accs) : Raised(accs[i])
            THEN <<key, FirstRaised(accs)>>
          ELSE IF Raised(acc) THEN <<key, acc>>
          ELSE <<key, extract_output(cf, acc)>>

\* ============================================================ Windowing
WindowFns == {"GlobalWindows", "FixedWindows"}
TriggerFns == {"DefaultTrigger", "AfterCount"}
AccumulationModes == {"DISCARDING", "ACCUMULATING"}

\* the arguments of Windowing(windowfn, triggerfn=None, accumulation_mode=None)
WindowingArgs ==
  [windowfn : WindowFns,
   triggerfn : TriggerFns \cup {"None"},
   accumulation_mode : AccumulationModes \cup {"None"}]

NoArgs == [windowfn |-> "None", triggerfn |-> "None",
           accumulation_mode |-> "None"]

NoWindowing ==
  [raised |-> "", windowfn |-> "None", triggerfn |-> "None",
   accumulation_mode |-> "None", is_default |-> FALSE]

\* a constructor that picks DISCARDING whenever the mode is omitted
Windowing_init_NeverRaises(windowfn, triggerfn_arg, mode_arg) ==
  LET triggerfn == IF triggerfn_arg = "None" THEN "DefaultTrigger"
                   ELSE triggerfn_arg
      accumulation_mode ==
        IF mode_arg = "None" THEN "DISCARDING"
        ELSE mode_arg
  IN [raised |-> "",
      windowfn |-> windowfn,
      triggerfn |-> triggerfn,
      accumulation_mode |-> accumulation_mode,
      is_default |-> /\ windowfn = "GlobalWindows"
                     /\ triggerfn = "DefaultTrigger"
                     /\ accumulation_mode = "DISCARDING"]

\* a constructor that overrides the mode of a default trigger
Windowing_init_ForcesDiscarding(windowfn, triggerfn_arg, mode_arg) ==
  LET triggerfn == IF triggerfn_arg = "None" THEN "DefaultTrigger"
                   ELSE triggerfn_arg
      accumulation_mode ==
        IF triggerfn = "DefaultTrigger" THEN "DISCARDING"
        ELSE IF mode_arg = "None" THEN "ValueError"
        ELSE mode_arg
  IN IF accumulation_mode = "ValueError"
       THEN [NoWindowing EXCEPT !.raised = "ValueError"]
     ELSE [raised |-> "",
           windowfn |-> windowfn,
           triggerfn |-> triggerfn,
           accumulation_mode |-> accumulation_mode,
           is_default |-> /\ windowfn = "GlobalWindows"
                          /\ triggerfn = "DefaultTrigger"
                          /\ accumulation_mode = "DISCARDING"]

\* a constructor whose _is_default leaves the accumulation mode out
Windowing_init_ModeBlind(windowfn, triggerfn_arg, mode_arg) ==
  LET triggerfn == IF triggerfn_arg = "None" THEN "DefaultTrigger"
                   ELSE triggerfn_arg
      accumulation_mode ==
        IF mode_arg = "None"
          THEN IF triggerfn = "DefaultTrigger" THEN "DISCARDING"
               ELSE "ValueError"
        ELSE mode_arg
  IN IF accumulation_mode = "ValueError"
       THEN [NoWindowing EXCEPT !.raised = "ValueError"]
     ELSE [raised |-> "",
           windowfn |-> windowfn,
           triggerfn |-> triggerfn,
           accumulation_mode |-> accumulation_mode,
           is_default |-> /\ windowfn = "GlobalWindows"
                          /\ triggerfn = "DefaultTrigger"]

\* a constructor that demands a mode whenever a trigger is passed
Windowing_init_GivenTriggerNeedsMode(windowfn, triggerfn_arg, mode_arg) ==
  LET triggerfn == IF triggerfn_arg = "None" THEN "DefaultTrigger"
                   ELSE triggerfn_arg
      accumulation_mode ==
        IF mode_arg = "None"
          THEN IF triggerfn_arg = "None" THEN "DISCARDING"
               ELSE "ValueError"
        ELSE mode_arg
  IN IF accumulation_mode = "ValueError"
       THEN [NoWindowing EXCEPT !.raised = "ValueError"]
     ELSE [raised |-> "",
           windowfn |-> windowfn,
           triggerfn |-> triggerfn,
           accumulation_mode |-> accumulation_mode,
           is_default |-> /\ windowfn = "GlobalWindows"
                          /\ triggerfn = "DefaultTrigger"
                          /\ accumulation_mode = "DISCARDING"]

\* Windowing.__init__: the object built, or the ValueError raised
Windowing_init(windowfn, triggerfn_arg, mode_arg) ==
  LET triggerfn == IF triggerfn_arg = "None" THEN "DefaultTrigger"
                   ELSE triggerfn_arg
      accumulation_mode ==
        IF mode_arg = "None"
          THEN IF triggerfn = "DefaultTrigger" THEN "DISCARDING"
               ELSE "ValueError"
        ELSE mode_arg
  IN IF accumulation_mode = "ValueError"
       THEN [NoWindowing EXCEPT !.raised = "ValueError"]
     ELSE [raised |-> "",
           windowfn |-> windowfn,
           triggerfn |-> triggerfn,
           accumulation_mode |-> accumulation_mode,
           is_default |-> /\ windowfn = "GlobalWindows"
                          /\ triggerfn = "DefaultTrigger"
                          /\ accumulation_mode = "DISCARDING"]

\* Windowing.is_default
Windowing_is_default(w) == w.is_default

\* every policy the constructor can build
Windowings ==
  {w \in {Windowing_init(a.windowfn, a.triggerfn, a.accumulation_mode) :
            a \in WindowingArgs} : w.raised = ""}

\* ============================================================== windows
FixedSize == 2
MAX_TIMESTAMP == 9
CountN == 2

Timestamps == {0, FixedSize}

GlobalWindow == [start |-> 0, end |-> MAX_TIMESTAMP]
IntervalWindow(start, end) == [start |-> start, end |-> end]

\* WindowFn.assign of GlobalWindows and of FixedWindows(FixedSize)
WindowFn_assign(windowfn, timestamp) ==
  IF windowfn = "GlobalWindows" THEN {GlobalWindow}
  ELSE LET start == timestamp - (timestamp % FixedSize)
       IN {IntervalWindow(start, start + FixedSize)}

AllWindows ==
  {GlobalWindow} \cup
  UNION {WindowFn_assign("FixedWindows", t) : t \in Timestamps}

WindowedValue(value, timestamp, windows) ==
  [value |-> value, timestamp |-> timestamp, windows |-> windows]

\* WindowInto.WindowIntoFn.process
WindowIntoFn_process(w, context) ==
  WindowedValue(context.value, context.timestamp,
                WindowFn_assign(w.windowfn, context.timestamp))

\* the windows of a set, earliest first
SortedWindows(S) ==
  LET F[T \in SUBSET S] ==
        IF T = {} THEN <<>>
        ELSE LET m == CHOOSE x \in T : \A y \in T : x.start <= y.start
             IN <<m>> \o F[T \ {m}]
  IN F[S]

\* ============================================================ GroupByKey
\* the elements of the input PCollection: a (k, v) pair, or something else
Keys == {"a", "b"}
KV(k, v) == [shape |-> "KV", k |-> k, v |-> v]
Malformed == {[shape |-> sh, k |-> "a", v |-> 0] :
                sh \in {"int", "tuple1", "tuple3"}}
GroupValues == {1, 2}
Elements == {KV(k, v) : k \in Keys, v \in GroupValues} \cup Malformed

\* an element of the input with its timestamp, before windows are assigned
Inputs ==
  {[value |-> e, timestamp |-> t] : e \in Elements, t \in Timestamps}

\* `k, v = context.element`: a non-iterable raises TypeError, a sequence of
\* another length raises ValueError
Unpack(element) ==
  CASE element.shape = "KV" -> "ok"
    [] element.shape = "int" -> "TypeError"
    [] OTHER -> "ValueError"

\* GroupByKey.ReifyWindows.process: the exception raised, "" when none
ReifyWindows_raises(context) ==
  CASE Unpack(context.value) = "TypeError" -> "TypeCheckError"
    [] Unpack(context.value) = "ValueError" -> "ValueError"
    [] OTHER -> ""

\* GroupByKey.ReifyWindows.process: the element returned
ReifyWindows_process(context) ==
  [k |-> context.value.k,
   wv |-> WindowedValue(context.value.v, context.timestamp, context.windows)]

\* GroupByKeyOnly as the local runner executes it: the reified values of
\* one key, in input order
GroupByKeyOnly(reif, k) ==
  LET F[i \in 0..Len(reif)] ==
        IF i = 0 THEN <<>>
        ELSE IF reif[i].k = k THEN Append(F[i - 1], reif[i].wv) ELSE F[i - 1]
  IN F[Len(reif)]

GroupedKeys(reif) == {reif[i].k : i \in 1..Len(reif)}

\* a grouping that starts on whatever part of its input is there
GroupByKeyOnly_ready_Early(reif, input) == TRUE

\* GroupByKeyOnly groups once its whole input, the output of ReifyWindows
\* over the whole PCollection, is there
GroupByKeyOnly_ready(reif, input) == Len(reif) = Len(input)

\* InMemoryUnmergedState(): no buffered values, no timers
InMemoryUnmergedState == [buffers |-> <<>>, timers |-> {}]

Timer(w, tag, timestamp) == [window |-> w, tag |-> tag, timestamp |-> timestamp]

ValuesOf(vs) == [i \in 1..Len(vs) |-> vs[i].value]

\* the values of vs assigned to window w, in order
ValuesIn(vs, w) ==
  LET F[i \in 0..Len(vs)] ==
        IF i = 0 THEN <<>>
        ELSE IF w \in vs[i].windows THEN Append(F[i - 1], vs[i].value)
             ELSE F[i - 1]
  IN F[Len(vs)]

Touched(vs) == UNION {vs[i].windows : i \in 1..Len(vs)}

\* the buffers after process_elements has buffered vs
Buffered(st, vs) ==
  [w \in (DOMAIN st.buffers) \cup Touched(vs) |->
     (IF w \in DOMAIN st.buffers THEN st.buffers[w] ELSE <<>>)
       \o ValuesIn(vs, w)]

\* the windows whose trigger fires in process_elements
FiresOnElements(policy, buf) ==
  IF policy.triggerfn = "AfterCount"
    THEN {w \in DOMAIN buf : Len(buf[w]) >= CountN}
  ELSE {}

\* the buffers once panes were emitted for the windows of fired
AfterFiring(policy, buf, fired) ==
  [w \in DOMAIN buf |->
     IF w \in fired /\ policy.accumulation_mode = "DISCARDING" THEN <<>>
     ELSE buf[w]]

\* AfterWatermark(early = AfterCount(CountN)): process_elements takes the
\* values one at a time; a window fires whenever CountN more values were
\* buffered for it. The buffers left and the (window, values) pairs fired.
EarlyFirings(policy, st, vs) ==
  LET Step(acc, wv) ==
        LET ws == SortedWindows(wv.windows)
            buf == [w \in (DOMAIN acc.buffers) \cup wv.windows |->
                      (IF w \in DOMAIN acc.buffers THEN acc.buffers[w]
                       ELSE <<>>)
                        \o (IF w \in wv.windows THEN <<wv.value>> ELSE <<>>)]
            fired == {w \in wv.windows : Len(buf[w]) % CountN = 0}
            fs == SortedWindows(fired)
        IN [buffers |-> AfterFiring(policy, buf, fired),
            out |-> acc.out \o
                      [i \in 1..Len(fs) |->
                         [window |-> fs[i], values |-> buf[fs[i]]]]]
      F[i \in 0..Len(vs)] ==
        IF i = 0 THEN [buffers |-> st.buffers, out |-> <<>>]
        ELSE CHOOSE r \in {Step(acc, vs[i]) : acc \in {F[i - 1]}} : TRUE
  IN F[Len(vs)]

\* the triggers that ask for a timer at the end of each window they see
WatermarkTriggers == {"DefaultTrigger", "AfterWatermark"}

\* the follow-up timers process_timer registers: AfterWatermark asks for
\* MaxFollowUps late firings, one time unit apart
FollowUpTimers(policy, timer) ==
  IF /\ policy.triggerfn = "AfterWatermark"
     /\ timer.timestamp - timer.window.end < MaxFollowUps
    THEN {Timer(timer.window, "LATE", timer.timestamp + 1)}
  ELSE {}

\* driver.process_elements(vs, state): the (window, values) pairs yielded
process_elements_out(policy, st, vs) ==
  IF Windowing_is_default(policy)
    THEN <<[window |-> GlobalWindow, values |-> ValuesOf(vs)]>>
  ELSE IF policy.triggerfn = "AfterWatermark"
    THEN EarlyFirings(policy, st, vs).out
  ELSE LET buf == Buffered(st, vs)
           ws == SortedWindows(FiresOnElements(policy, buf))
       IN [i \in 1..Len(ws) |-> [window |-> ws[i], values |-> buf[ws[i]]]]

\* driver.process_elements(vs, state): the state it leaves
process_elements_state(policy, st, vs) ==
  IF Windowing_is_default(policy) THEN st
  ELSE LET buf == Buffered(st, vs)
       IN [buffers |->
             IF policy.triggerfn = "AfterWatermark"
               THEN EarlyFirings(policy, st, vs).buffers
             ELSE AfterFiring(policy, buf, FiresOnElements(policy, buf)),
           timers |-> st.timers \cup
             (IF policy.triggerfn \in WatermarkTriggers
                THEN {Timer(w, "WATERMARK", w.end) : w \in Touched(vs)}
              ELSE {})]

\* state.get_and_clear_timers(): the timers drained, earliest window first
get_and_clear_timers(st) ==
  LET ws == SortedWindows({t.window : t \in st.timers})
  IN [i \in 1..Len(ws) |->
        CHOOSE t \in st.timers : t.window = ws[i]]

\* driver.process_timer(window, timestamp, tag, state): the pairs yielded
process_timer_out(policy, st, timer) ==
  IF /\ timer.window \in DOMAIN st.buffers
     /\ st.buffers[timer.window] # <<>>
    THEN <<[window |-> timer.window, values |-> st.buffers[timer.window]]>>
  ELSE <<>>

\* driver.process_timer: the state it leaves
process_timer_state(policy, st, timer) ==
  [buffers |->
     AfterFiring(policy, st.buffers,
                 IF process_timer_out(policy, st, timer) = <<>> THEN {}
                 ELSE {timer.window}),
   timers |-> st.timers \cup FollowUpTimers(policy, timer)]

\* a loop that is never entered
while_state_timers_Never(st) == FALSE

\* `while state.timers:`: the loop goes on while a timer is pending
while_state_timers(st) == st.timers # {}

\* `for timer_window, (tag, timestamp) in ...`: the timer of this iteration
for_timer(timers) == Head(timers)

\* a for loop that skips every second timer of the list
for_rest_SkipsOne(timers) == IF Len(timers) > 1 THEN Tail(Tail(timers)) ELSE <<>>

\* `for timer_window, (tag, timestamp) in ...`: the timers of the later
\* iterations
for_rest(timers) == Tail(timers)

\* a state object shared by every call of process
process_state_Shared(k) == "a"

\* `state = InMemoryUnmergedState()` is a local of the call: the state
\* object the call for key k works on
process_state(k) == k

\* a process that drops what the driver yields
GroupAlsoByWindow_yield_Nothing(k, out) == <<>>

\* a process that yields every pane twice
GroupAlsoByWindow_yield_Twice(k, out) ==
  [i \in 1..(2 * Len(out)) |->
     WindowedValue([k |-> k, values |-> out[(i + 1) \div 2].values],
                   out[(i + 1) \div 2].window.end,
                   <<out[(i + 1) \div 2].window>>)]

\* a process that stamps a pane with the start of its window
GroupAlsoByWindow_yield_AtStart(k, out) ==
  [i \in 1..Len(out) |->
     WindowedValue([k |-> k, values |-> out[i].values],
                   out[i].window.start, <<out[i].window>>)]

\* GroupAlsoByWindow.process: one WindowedValue per pair the driver yields
GroupAlsoByWindow_yield(k, out) ==
  [i \in 1..Len(out) |->
     WindowedValue([k |-> k, values |-> out[i].values],
                   out[i].window.end, <<out[i].window>>)]

\* ======================================================= CombineGlobally
\* pvalue.AsSingleton._NO_DEFAULT
NO_DEFAULT == PyVal("_NO_DEFAULT", 0, 0)

\* Map(KeyWithVoid) | CombinePerKey(fn) | Map(UnKey): every element is
\* keyed with None, so a non-empty input gives one group and one combined
\* value, an empty input gives no group
Combined(cf, rtc, elems) ==
  IF elems = <<>> THEN <<>>
  ELSE <<CombineValuesDoFn_process(cf, rtc, "None", elems)[2]>>

\* CombineGlobally(fn): the class attributes has_defaults = True and
\* as_view = False
CombineGlobally_init == [has_defaults |-> TRUE, as_view |-> FALSE]

\* CombineGlobally.clone(**extra_attributes): copy.copy(self), then the
\* attribute is set in the __dict__ of the copy; the object it was called
\* on afterwards, and the clone
clone(self, attribute, value) ==
  [original |-> self, clone |-> [self EXCEPT ![attribute] = value]]

\* CombineGlobally.apply: default_value
CombineGlobally_default(cf, defaults) ==
  IF defaults THEN apply(cf, <<>>) ELSE NO_DEFAULT

\* CombineGlobally.apply: the exception raised while the pipeline is
\* built, "" when none
CombineGlobally_apply_raises(cf, defaults, view, windowfn) ==
  IF ~defaults /\ ~view THEN ""
  ELSE IF Raised(CombineGlobally_default(cf, defaults))
    THEN CombineGlobally_default(cf, defaults).kind
  ELSE IF ~view /\ windowfn # "GlobalWindows" THEN "ValueError"
  ELSE ""

\* the value of the side input AsSingleton(combined, default_value)
AsSingleton_value(pcoll_, default) ==
  IF pcoll_ # <<>> THEN pcoll_[1]
  ELSE IF default = NO_DEFAULT THEN Raise("ValueError")
  ELSE default

\* the PCollection CombineGlobally.apply returns, once it was run
CombineGlobally_output(defaults, view, pcoll_, default) ==
  IF ~defaults /\ ~view THEN pcoll_
  ELSE <<AsSingleton_value(pcoll_, default)>>

\* ============================================================= Partition
\* the indexes a PartitionFn may answer, in and out of range
PartitionIndexes == -1..MaxN

\* pvalue.SideOutputValue(tag, value)
SideOutputValue(tag, value) == [tag |-> tag, value |-> value]

\* a range test that lets the index n through
in_bounds_Inclusive(partition, n) == 0 <= partition /\ partition <= n

\* ApplyPartitionFnFn.process: `0 <= partition < n`
in_bounds(partition, n) == 0 <= partition /\ partition < n

\* ApplyPartitionFnFn.process: the exception raised, "" when none
ApplyPartitionFnFn_raises(partition, n) ==
  IF ~in_bounds(partition, n) THEN "ValueError" ELSE ""

\* ApplyPartitionFnFn.process: what it yields
ApplyPartitionFnFn_process(element, partition, n) ==
  <<SideOutputValue(ToString(partition), element)>>

\* Partition.apply: the tags of the outputs, with_outputs(*[str(t) ...])
with_outputs(n) == {ToString(t) : t \in 0..(n - 1)}

\* ==================================================== DoFnProcessContext
\* Python values an attribute or an argument may hold: None, or a value
None == <<>>
Some(v) == <<v>>

\* the attributes set_element sets and deletes
ElementAttributes == {"element", "timestamp", "windows"}

\* DoFnProcessContext.set_element: the __dict__ of the object afterwards,
\* attribute name -> value. `del self.element` removes the attribute.
DoFnProcessContext_set_element(self, windowed_value) ==
  IF windowed_value = None
    THEN IF "element" \in DOMAIN self
           THEN [a \in (DOMAIN self) \ ElementAttributes |-> self[a]]
         ELSE self
  ELSE [a \in (DOMAIN self) \cup ElementAttributes |->
          CASE a = "element" -> Some(windowed_value[1].value)
            [] a = "timestamp" -> Some(windowed_value[1].timestamp)
            [] a = "windows" -> Some(windowed_value[1].windows)
            [] OTHER -> self[a]]

\* DoFnProcessContext.__init__(label, element=None, state=None)
DoFnProcessContext_init(label, element, state_) ==
  LET self == [a \in {"label", "state"} |->
                 IF a = "label" THEN Some(label) ELSE state_]
  IN IF element # None THEN DoFnProcessContext_set_element(self, element)
     ELSE self

\* reading context.<name>: does it give None / the value v, rather than
\* raise AttributeError or give something else
ReadsNone(self, name) == name \in DOMAIN self /\ self[name] = None
Reads(self, name, v) == name \in DOMAIN self /\ self[name] = Some(v)

\* ===================================================== dependency staging
\* a file name is a stem and an extension, a path a directory and a name
File(stem, ext) == [stem |-> stem, ext |-> ext]
Path(dir, name) == [dir |-> dir, name |-> name]
NoPath == Path("None", File("", ""))

WORKFLOW_TARBALL_FILE == File("workflow", ".tar.gz")
REQUIREMENTS_FILE == File("requirements", ".txt")
EXTRA_PACKAGES_FILE == File("extra_packages", ".txt")
PICKLED_MAIN_SESSION_FILE == File("pickled_main_session", "")
DATAFLOW_SDK_TARBALL_FILE == File("dataflow_python_sdk", ".tar")

\* os.path.basename, os.path.join / utils.path.join
basename(path) == path.name
join(dir, name) == Path(dir, name)

\* the local files that exist (os.path.isfile)
LocalFiles ==
  {Path("/src", File("reqs", ".txt")),
   Path("/src", File("setup", ".py")),
   Path("/src", File("build", ".py")),
   Path("/src", File("abc", ".tar.gz")),
   Path("/lib", File("xyz", ".tar.gz")),
   Path("/lib", File("abc", ".tar.gz")),
   Path("/src", File("pkg", ".zip")),
   Path("/sdk", DATAFLOW_SDK_TARBALL_FILE)}

isfile(path) == path \in LocalFiles

RequirementsFiles == {NoPath, Path("/src", File("reqs", ".txt")),
                      Path("/gone", File("reqs", ".txt"))}
SetupFiles == {NoPath, Path("/src", File("setup", ".py")),
               Path("/gone", File("setup", ".py")),
               Path("/src", File("build", ".py"))}
Packages == {Path("/src", File("abc", ".tar.gz")),
             Path("/lib", File("xyz", ".tar.gz")),
             Path("/lib", File("abc", ".tar.gz")),
             Path("/gone", File("xyz", ".tar.gz")),
             Path("/src", File("pkg", ".zip"))}
SdkLocations == {"", "default", "gs://sdk", "/sdk", "/nosdk"}

\* the options stage_job_resources reads; extra_packages is None when
\* has_extra_packages is false; build_ok tells whether the setup.py sdist
\* command leaves a tarball
Options ==
  [staging_location : {"None", "gs://staging"},
   temp_location : {"None", "gs://temp"},
   requirements_file : RequirementsFiles,
   setup_file : SetupFiles,
   build_ok : BOOLEAN,
   has_extra_packages : BOOLEAN,
   extra_packages : SeqsUpTo(Packages, MaxPackages),
   save_main_session : BOOLEAN,
   sdk_location : SdkLocations]

\* a check order that looks at the temp location first
required_option_TempFirst(opts) == IF opts.temp_location = "None" THEN "temp_location" ELSE IF opts.staging_location = "None" THEN "staging_location" ELSE ""

\* stage_job_resources: the required option that is missing, "" when none
required_option(opts) ==
  IF opts.staging_location = "None" THEN "staging_location"
  ELSE IF opts.temp_location = "None" THEN "temp_location"
  ELSE ""

\* file_copy(from_path, to_path): the record of one copy
Copy(from, to, content) == [from |-> from, to |-> to, content |-> content]

\* the lines written to the temporary extra_packages.txt
ExtraPackagesLines(packages) ==
  [i \in DOMAIN packages |-> basename(packages[i])]

\* lines written in reverse order
staged_package_Last(packages, i) == basename(packages[Len(packages) + 1 - i])

\* _stage_extra_packages: the name appended to resources for package i
staged_package(packages, i) == basename(packages[i])

\* _stage_extra_packages: the error package raises, "" when none
extra_package_raises(package) ==
  IF ~isfile(package) THEN "RuntimeError"
  ELSE IF basename(package).ext # ".tar.gz" THEN "RuntimeError"
  ELSE ""

\* the requirements file check
requirements_file_raises(opts) ==
  IF ~isfile(opts.requirements_file) THEN "RuntimeError" ELSE ""

\* the setup file checks and _build_setup_package
setup_file_raises(opts) ==
  IF ~isfile(opts.setup_file) THEN "RuntimeError"
  ELSE IF basename(opts.setup_file) # File("setup", ".py") THEN "RuntimeError"
  ELSE IF ~opts.build_ok THEN "RuntimeError"
  ELSE ""

\* whether the SDK tarball is fetched from GCS
stage_tarball_from_gcs(opts) ==
  opts.sdk_location = "default" \/ opts.sdk_location \in {"gs://sdk"}

\* the local SDK tarball looked for otherwise
sdk_path(opts) == join(opts.sdk_location, DATAFLOW_SDK_TARBALL_FILE)

\* ================================================================ state
VARIABLES
  pc,                 \* position of the run
  combinefn,          \* the CombineFn in use
  elements,           \* the input values of the combine
  remaining,          \* indexes of elements not yet folded into a batch
  accumulator,        \* the accumulator of the open batch
  folds,              \* add_inputs calls made on the open batch
  accumulators,       \* the accumulators of the closed batches
  allFolded,          \* every closed batch went through add_inputs
  call,               \* the last CombineFn call: op, arguments, result
  output,             \* the value of extract_output, or the exception
  p_context_element,  \* the (key, values) record given to CombineValuesDoFn
  runtime_type_check, \* the flag of CombineValuesDoFn
  result,             \* what CombineValuesDoFn.process returned
  loop_k,             \* the k of `for k in range(3)` in process
  trace,              \* the CombineFn calls process has made, in order
  extra_args,         \* the *args the CombineFn methods are called with
  args,               \* the arguments of the last Windowing(...) call
  windowing,          \* the Windowing built last / of the input PCollection
  windowings,         \* the Windowing objects built so far
  is_default_ret,     \* what is_default() returned last
  error,              \* the exception that ended the run, "" when none
  pcoll,              \* the input PCollection, timestamped elements
  windowed,           \* the output of WindowInto
  reified,            \* the output of ReifyWindows
  grouped,            \* the output of GroupByKeyOnly: key -> windowed values
  current,            \* the key GroupAlsoByWindow.process is working on
  state,              \* the InMemoryUnmergedState of that call
  drained,            \* the timers get_and_clear_timers returned, unprocessed
  doneKeys,           \* the keys GroupAlsoByWindow.process has finished
  panes,              \* the output of GroupByKey, in emission order
  calls,              \* key -> the GroupAlsoByWindow.process call on it
  states,             \* state object -> its InMemoryUnmergedState
  timerlog,           \* key -> the timers registered and delivered so far
  has_defaults,       \* CombineGlobally.has_defaults
  as_view,            \* CombineGlobally.as_view
  transforms,         \* the CombineGlobally objects made so far, oldest first
  default_value,      \* the default CombineGlobally.apply computed
  combined,           \* the PCollection `combined` of CombineGlobally.apply
  globally,           \* what CombineGlobally.apply returned, once run
  partitionfn,        \* the PartitionFn: element -> index
  partition_n,        \* the n of Partition
  processed,          \* elements ApplyPartitionFnFn.process was called on
  side_outputs,       \* the SideOutputValues emitted, with their element no.
  options,            \* the options given to stage_job_resources
  copied,             \* the file_copy calls made so far
  temp_dir,           \* the files in the temporary directory
  temp_dir_exists,    \* whether the directory mkdtemp() made is still there
  resources,          \* the local list `resources`
  returned,           \* whether stage_job_resources returned resources
  message,            \* the option or file the raised error names
  p_context,          \* the attributes of the DoFnProcessContext object
  set_elements        \* the arguments of its __init__ and set_element calls

cvars == <<combinefn, elements, remaining, accumulator, folds, accumulators,
           allFolded, call, output>>
dvars == <<p_context_element, runtime_type_check, result, loop_k, trace,
           extra_args>>
wvars == <<args, windowing, windowings, is_default_ret>>
kvars == <<calls, states, timerlog>>
bvars == <<has_defaults, as_view, transforms, default_value, combined,
           globally>>
pvars == <<partitionfn, partition_n, processed, side_outputs>>
svars == <<options, copied, temp_dir, temp_dir_exists, resources, returned,
           message>>
xvars == <<p_context, set_elements>>
tvars == <<bvars, pvars, svars, xvars>>
gvars == <<pcoll, windowed, reified, grouped, current, state, drained,
           doneKeys, panes, kvars, tvars>>
vars == <<pc, error, cvars, dvars, wvars, gvars>>

NoCall == [op |-> "none", acc |-> EMPTY, elems |-> <<>>, ret |-> EMPTY]
NoElement == <<"a", <<>>>>
NoResult == <<"a", EMPTY>>

DoFnIdle ==
  /\ p_context_element = NoElement
  /\ runtime_type_check = FALSE
  /\ result = NoResult
  /\ loop_k = 0
  /\ trace = <<>>
  /\ extra_args = <<>>

CombineIdle ==
  /\ elements = <<>>
  /\ remaining = {}
  /\ accumulator = EMPTY
  /\ folds = 0
  /\ accumulators = <<>>
  /\ allFolded = TRUE
  /\ call = NoCall
  /\ output = EMPTY

WindowingIdle ==
  /\ args = NoArgs
  /\ windowing = NoWindowing
  /\ windowings = <<>>
  /\ is_default_ret = "None"

\* a call of GroupAlsoByWindow.process before it starts
NoProcessCall == [pc |-> "ready", drained |-> <<>>, round |-> 0]
NoTimerLog == [registered |-> {}, delivered |-> <<>>]

DriveIdle ==
  /\ calls = [k \in Keys |-> NoProcessCall]
  /\ states = [k \in Keys |-> InMemoryUnmergedState]
  /\ timerlog = [k \in Keys |-> NoTimerLog]

GloballyIdle ==
  /\ has_defaults = TRUE
  /\ as_view = FALSE
  /\ transforms = <<CombineGlobally_init>>
  /\ default_value = NO_DEFAULT
  /\ combined = <<>>
  /\ globally = <<>>

PartitionIdle ==
  /\ partitionfn = [v \in Values |-> 0]
  /\ partition_n = 0
  /\ processed = 0
  /\ side_outputs = <<>>

NoOptions ==
  [staging_location |-> "None", temp_location |-> "None",
   requirements_file |-> NoPath, setup_file |-> NoPath, build_ok |-> TRUE,
   has_extra_packages |-> FALSE, extra_packages |-> <<>>,
   save_main_session |-> FALSE, sdk_location |-> ""]

StagingIdle ==
  /\ options = NoOptions
  /\ copied = <<>>
  /\ temp_dir = {}
  /\ temp_dir_exists = FALSE
  /\ resources = <<>>
  /\ returned = FALSE
  /\ message = ""

ContextIdle ==
  /\ p_context = <<>>
  /\ set_elements = <<>>

TransformsIdle ==
  /\ GloballyIdle
  /\ PartitionIdle
  /\ StagingIdle
  /\ ContextIdle

GroupIdle ==
  /\ DriveIdle
  /\ TransformsIdle
  /\ pcoll = <<>>
  /\ windowed = <<>>
  /\ reified = <<>>
  /\ grouped = [k \in Keys |-> <<>>]
  /\ current = "None"
  /\ state = InMemoryUnmergedState
  /\ drained = <<>>
  /\ doneKeys = {}
  /\ panes = <<>>

\* ============================================== the CombineFn protocol
\* (CombineFn docstring, steps 1-5) driven over one input sequence
InitCombine ==
  /\ pc = "idle"
  /\ combinefn \in CombineFns
  /\ elements \in SeqsUpTo(Values, MaxLen)
  /\ remaining = DOMAIN elements
  /\ accumulator = EMPTY
  /\ folds = 0
  /\ accumulators = <<>>
  /\ allFolded = TRUE
  /\ call = NoCall
  /\ output = EMPTY
  /\ error = ""
  /\ DoFnIdle
  /\ WindowingIdle
  /\ GroupIdle

Pick(seq, S) ==
  LET F[i \in 0..Len(seq)] ==
        IF i = 0 THEN <<>>
        ELSE IF i \in S THEN Append(F[i - 1], seq[i]) ELSE F[i - 1]
  IN F[Len(seq)]

\* step 2: a fresh accumulator opens a batch
CreateAccumulator ==
  /\ pc = "idle"
  /\ Len(accumulators) < MaxBatches
  /\ accumulator' = create_accumulator(combinefn)
  /\ folds' = 0
  /\ call' = [op |-> "create_accumulator", acc |-> EMPTY, elems |-> <<>>,
              ret |-> create_accumulator(combinefn)]
  /\ pc' = "batch"
  /\ UNCHANGED <<combinefn, elements, remaining, accumulators, allFolded,
                 output, error, dvars, wvars, gvars>>

\* step 3: some of the remaining values are folded into the open batch
AddInputs(S) ==
  LET part == PyInts(Pick(elements, S))
      ret == add_inputs(combinefn, accumulator, part)
  IN /\ pc = "batch"
     /\ folds < MaxFolds
     /\ S \subseteq remaining
     /\ remaining' = remaining \ S
     /\ call' = [op |-> "add_inputs", acc |-> accumulator, elems |-> part,
                 ret |-> ret]
     /\ folds' = folds + 1
     /\ IF Raised(ret)
          THEN /\ pc' = "raised"
               /\ output' = ret
               /\ UNCHANGED accumulator
          ELSE /\ accumulator' = ret
               /\ UNCHANGED <<pc, output>>
     /\ UNCHANGED <<combinefn, elements, accumulators, allFolded, error, dvars, wvars,
                    gvars>>

\* the batch is complete: its accumulator joins those to be merged
EndBatch ==
  /\ pc = "batch"
  /\ accumulators' = Append(accumulators, accumulator)
  /\ allFolded' = (allFolded /\ folds > 0)
  /\ pc' = "idle"
  /\ UNCHANGED <<combinefn, elements, remaining, accumulator, folds, call,
                 output, error, dvars, wvars, gvars>>

\* step 4: once every value is in a batch, the accumulators are merged
MergeAccumulators ==
  LET ret == merge_accumulators(combinefn, accumulators)
  IN /\ pc = "idle"
     /\ remaining = {}
     /\ call' = [op |-> "merge_accumulators", acc |-> EMPTY,
                 elems |-> accumulators, ret |-> ret]
     /\ IF Raised(ret)
          THEN /\ pc' = "raised"
               /\ output' = ret
               /\ UNCHANGED accumulator
          ELSE /\ pc' = "merged"
               /\ accumulator' = ret
               /\ UNCHANGED output
     /\ UNCHANGED <<combinefn, elements, remaining, folds, accumulators,
                    allFolded, error, dvars, wvars, gvars>>

\* step 5: the output is extracted from the merged accumulator, or from
\* the accumulator of the open batch
ExtractOutput ==
  LET ret == extract_output(combinefn, accumulator)
  IN /\ pc \in {"merged", "batch"}
     /\ call' = [op |-> "extract_output", acc |-> accumulator,
                 elems |-> <<>>, ret |-> ret]
     /\ output' = ret
     /\ pc' = IF Raised(ret) THEN "raised"
              ELSE IF pc = "merged" THEN "done" ELSE "extracted"
     /\ UNCHANGED <<combinefn, elements, remaining, accumulator, folds,
                    accumulators, allFolded, error, dvars, wvars,
                    gvars>>

NextCombine ==
  \/ CreateAccumulator
  \/ \E S \in SUBSET (DOMAIN elements) : AddInputs(S)
  \/ EndBatch
  \/ MergeAccumulators
  \/ ExtractOutput

SpecCombine == InitCombine /\ [][NextCombine]_vars

\* ============================================ CombineValuesDoFn.process
InitValues ==
  /\ pc = "element"
  /\ combinefn \in CombineFns
  /\ runtime_type_check \in BOOLEAN
  /\ p_context_element \in Keys \X SeqsUpTo(Values, MaxValuesLen)
  /\ result = NoResult
  /\ loop_k = 0
  /\ trace = <<>>
  /\ extra_args = <<>>
  /\ error = ""
  /\ CombineIdle
  /\ WindowingIdle
  /\ GroupIdle

Process ==
  /\ pc = "element"
  /\ result' = CombineValuesDoFn_process(combinefn, runtime_type_check,
                   p_context_element[1], PyInts(p_context_element[2]))
  /\ pc' = IF Raised(result'[2]) THEN "failed" ELSE "processed"
  /\ UNCHANGED <<cvars, p_context_element, runtime_type_check, loop_k, trace,
                 extra_args, error, wvars, gvars>>

NextValues == Process

SpecValues == InitValues /\ [][NextValues]_vars

\* ================================= CombineValuesDoFn.process, call by call
\* process on one (key, values) record, one CombineFn call after another;
\* trace keeps the calls made
InitPerKey ==
  /\ pc = "process"
  /\ combinefn \in CombineFns
  /\ runtime_type_check \in BOOLEAN
  /\ p_context_element \in Keys \X SeqsUpTo(Values, MaxValuesLen)
  /\ result = NoResult
  /\ loop_k = 0
  /\ trace = <<>>
  /\ extra_args = <<>>
  /\ error = ""
  /\ CombineIdle
  /\ WindowingIdle
  /\ GroupIdle

PerKeyFrame == <<combinefn, elements, remaining, folds, allFolded, output,
                 p_context_element, runtime_type_check, extra_args, error,
                 wvars, gvars>>

Called(op, acc, elems, ret) ==
  [op |-> op, acc |-> acc, elems |-> elems, ret |-> ret]

\* `if self.runtime_type_check:` the combiner is applied in one operation
ProcessApply ==
  LET elems == PyInts(p_context_element[2])
      ret == apply(combinefn, elems)
  IN /\ pc = "process"
     /\ runtime_type_check
     /\ call' = Called("apply", EMPTY, elems, ret)
     /\ trace' = Append(trace, call')
     /\ result' = <<p_context_element[1], ret>>
     /\ pc' = IF Raised(ret) THEN "failed" ELSE "processed"
     /\ UNCHANGED <<accumulator, accumulators, loop_k, PerKeyFrame>>

\* `for k in range(3)` goes on while k < 3
range_3(k) == k < 3

\* one iteration of `for k in range(3)` past the break: a fresh
\* accumulator, add_inputs of elements[k::3], append
ProcessAddInputs ==
  LET elems == PyInts(p_context_element[2])
      acc == create_accumulator(combinefn)
      part == Slice(elems, loop_k)
      ret == add_inputs(combinefn, acc, part)
  IN /\ pc = "process"
     /\ ~runtime_type_check
     /\ range_3(loop_k)
     /\ ~(Len(elems) <= loop_k)
     /\ call' = Called("add_inputs", acc, part, ret)
     /\ trace' = trace \o <<Called("create_accumulator", EMPTY, <<>>, acc),
                             call'>>
     /\ IF Raised(ret)
          THEN /\ result' = <<p_context_element[1], ret>>
               /\ pc' = "failed"
               /\ UNCHANGED <<accumulators, loop_k>>
          ELSE /\ accumulators' = Append(accumulators, ret)
               /\ loop_k' = loop_k + 1
               /\ UNCHANGED <<result, pc>>
     /\ UNCHANGED <<accumulator, PerKeyFrame>>

\* the loop is left (range exhausted, or break): merge_accumulators
ProcessMerge ==
  LET elems == PyInts(p_context_element[2])
      ret == merge_accumulators(combinefn, accumulators)
  IN /\ pc = "process"
     /\ ~runtime_type_check
     /\ ~range_3(loop_k) \/ Len(elems) <= loop_k
     /\ call' = Called("merge_accumulators", EMPTY, accumulators, ret)
     /\ trace' = Append(trace, call')
     /\ IF Raised(ret)
          THEN /\ result' = <<p_context_element[1], ret>>
               /\ pc' = "failed"
               /\ UNCHANGED accumulator
          ELSE /\ accumulator' = ret
               /\ pc' = "merged"
               /\ UNCHANGED result
     /\ UNCHANGED <<accumulators, loop_k, PerKeyFrame>>

\* `return [(p_context.element[0], extract_output(accumulator))]`
ProcessExtract ==
  LET ret == extract_output(combinefn, accumulator)
  IN /\ pc = "merged"
     /\ call' = Called("extract_output", accumulator, <<>>, ret)
     /\ trace' = Append(trace, call')
     /\ result' = <<p_context_element[1], ret>>
     /\ pc' = IF Raised(ret) THEN "failed" ELSE "processed"
     /\ UNCHANGED <<accumulator, accumulators, loop_k, PerKeyFrame>>

NextPerKey ==
  \/ ProcessApply
  \/ ProcessAddInputs
  \/ ProcessMerge
  \/ ProcessExtract

SpecPerKey == InitPerKey /\ [][NextPerKey]_vars

\* ================================== CallableWrapperCombineFn, call by call
\* a CombineFn wrapping a callable is driven with the extra arguments of
\* its transform: accumulators are created, folded, merged and extracted
InitWrapper ==
  /\ pc = "idle"
  /\ \E c \in WrappedCalls : combinefn = c[1] /\ extra_args = c[2]
  /\ error = ""
  /\ CombineIdle
  /\ p_context_element = NoElement
  /\ runtime_type_check = FALSE
  /\ result = NoResult
  /\ loop_k = 0
  /\ trace = <<>>
  /\ WindowingIdle
  /\ GroupIdle

WrapperFrame == <<combinefn, extra_args, elements, remaining, accumulators,
                  allFolded, p_context_element, runtime_type_check, result,
                  loop_k, trace, error, wvars, gvars>>

\* the call returns ret, or raises it
Returns(ret, nextpc) ==
  IF Raised(ret)
    THEN /\ pc' = "raised"
         /\ output' = ret
         /\ UNCHANGED accumulator
  ELSE /\ pc' = nextpc
       /\ accumulator' = ret
       /\ UNCHANGED output

WrapperCreateAccumulator ==
  LET ret == CallableWrapperCombineFn_create_accumulator(extra_args)
  IN /\ pc = "idle"
     /\ call' = Called("create_accumulator", EMPTY, <<>>, ret)
     /\ folds' = 0
     /\ Returns(ret, "open")
     /\ UNCHANGED WrapperFrame

WrapperAddInput(v) ==
  LET ret == CallableWrapperCombineFn_add_input(combinefn, accumulator,
                                                PyInt(v), extra_args)
  IN /\ pc = "open"
     /\ folds < MaxFolds
     /\ call' = Called("add_input", accumulator, <<PyInt(v)>>, ret)
     /\ folds' = folds + 1
     /\ Returns(ret, "open")
     /\ UNCHANGED WrapperFrame

WrapperAddInputs(vs) ==
  LET ret == CallableWrapperCombineFn_add_inputs_args(
               combinefn, accumulator, PyInts(vs), extra_args)
  IN /\ pc = "open"
     /\ folds < MaxFolds
     /\ call' = Called("add_inputs", accumulator, PyInts(vs), ret)
     /\ folds' = folds + 1
     /\ Returns(ret, "open")
     /\ UNCHANGED WrapperFrame

\* accumulators built earlier (numbers, or still the sentinel) are merged
WrapperMergeAccumulators(accs) ==
  LET ret == CallableWrapperCombineFn_merge_accumulators_args(
               combinefn, accs, extra_args)
  IN /\ pc = "idle"
     /\ call' = Called("merge_accumulators", EMPTY, accs, ret)
     /\ folds' = MaxFolds
     /\ Returns(ret, "open")
     /\ UNCHANGED WrapperFrame

WrapperExtractOutput ==
  LET ret == CallableWrapperCombineFn_extract_output_args(
               combinefn, accumulator, extra_args)
  IN /\ pc = "open"
     /\ call' = Called("extract_output", accumulator, <<>>, ret)
     /\ output' = ret
     /\ pc' = IF Raised(ret) THEN "raised" ELSE "done"
     /\ UNCHANGED <<accumulator, folds, WrapperFrame>>

WrapperApply(vs) ==
  LET ret == CombineFn_apply_args(combinefn, PyInts(vs), extra_args)
  IN /\ pc = "idle"
     /\ call' = Called("apply", EMPTY, PyInts(vs), ret)
     /\ output' = ret
     /\ pc' = IF Raised(ret) THEN "raised" ELSE "done"
     /\ UNCHANGED <<accumulator, folds, WrapperFrame>>

NextWrapper ==
  \/ WrapperCreateAccumulator
  \/ \E v \in Values : WrapperAddInput(v)
  \/ \E vs \in SeqsUpTo(Values, MaxLen) : WrapperAddInputs(vs)
  \/ \E accs \in SeqsUpTo({EMPTY} \cup {PyInt(v) : v \in Values},
                           MaxBatches) : WrapperMergeAccumulators(accs)
  \/ WrapperExtractOutput
  \/ \E vs \in SeqsUpTo(Values, MaxLen) : WrapperApply(vs)

SpecWrapper == InitWrapper /\ [][NextWrapper]_vars

\* ===================================================== Windowing objects
InitWindowing ==
  /\ pc = "pipeline"
  /\ error = ""
  /\ WindowingIdle
  /\ combinefn = "sum"
  /\ CombineIdle
  /\ DoFnIdle
  /\ GroupIdle

\* Windowing(windowfn, triggerfn, accumulation_mode), as WindowInto calls it
NewWindowing(a) ==
  LET w == Windowing_init(a.windowfn, a.triggerfn, a.accumulation_mode)
  IN /\ pc = "pipeline"
     /\ Len(windowings) < MaxPolicies
     /\ args' = a
     /\ is_default_ret' = "None"
     /\ IF w.raised # ""
          THEN /\ error' = w.raised
               /\ pc' = "failed"
               /\ windowing' = NoWindowing
               /\ UNCHANGED windowings
          ELSE /\ windowing' = w
               /\ windowings' = Append(windowings, w)
               /\ UNCHANGED <<pc, error>>
     /\ UNCHANGED <<cvars, dvars, gvars>>

\* windowing.is_default()
IsDefault ==
  /\ pc = "pipeline"
  /\ windowing # NoWindowing
  /\ is_default_ret' = IF Windowing_is_default(windowing) THEN "True"
                       ELSE "False"
  /\ UNCHANGED <<pc, error, args, windowing, windowings, cvars, dvars, gvars>>

NextWindowing ==
  \/ \E a \in WindowingArgs : NewWindowing(a)
  \/ IsDefault

SpecWindowing == InitWindowing /\ [][NextWindowing]_vars

\* ==================================================== GroupByKey.apply
\* WindowInto | reify_windows | group_by_key | group_by_window, each
\* transform run over its whole input before the next one starts
InitGroup ==
  /\ pc = "window_into"
  /\ error = ""
  /\ windowing \in Windowings
  /\ args = NoArgs
  /\ windowings = <<windowing>>
  /\ is_default_ret = "None"
  /\ pcoll \in SeqsUpTo(Inputs, MaxElems)
  /\ windowed = <<>>
  /\ reified = <<>>
  /\ grouped = [k \in Keys |-> <<>>]
  /\ current = "None"
  /\ state = InMemoryUnmergedState
  /\ drained = <<>>
  /\ doneKeys = {}
  /\ panes = <<>>
  /\ DriveIdle
  /\ TransformsIdle
  /\ combinefn = "sum"
  /\ CombineIdle
  /\ DoFnIdle

GroupFrame == <<cvars, dvars, wvars, pcoll, kvars, tvars>>

\* WindowIntoFn.process on the next element
WindowInto ==
  /\ pc = "window_into"
  /\ Len(windowed) < Len(pcoll)
  /\ windowed' = Append(windowed,
                   WindowIntoFn_process(windowing, pcoll[Len(windowed) + 1]))
  /\ UNCHANGED <<pc, error, reified, grouped, current, state, drained,
                 doneKeys, panes, GroupFrame>>

WindowIntoDone ==
  /\ pc = "window_into"
  /\ Len(windowed) = Len(pcoll)
  /\ pc' = "reify_windows"
  /\ UNCHANGED <<error, gvars, cvars, dvars, wvars>>

\* ReifyWindows.process on the next element
ReifyWindows ==
  LET context == windowed[Len(reified) + 1]
  IN /\ pc = "reify_windows"
     /\ Len(reified) < Len(windowed)
     /\ IF ReifyWindows_raises(context) # ""
          THEN /\ error' = ReifyWindows_raises(context)
               /\ pc' = "failed"
               /\ UNCHANGED reified
          ELSE /\ reified' = Append(reified, ReifyWindows_process(context))
               /\ UNCHANGED <<pc, error>>
     /\ UNCHANGED <<windowed, grouped, current, state, drained, doneKeys,
                    panes, GroupFrame>>

\* GroupByKeyOnly: runs once the whole reified input is there
GroupByKeyOnlyStep ==
  /\ pc = "reify_windows"
  /\ GroupByKeyOnly_ready(reified, windowed)
  /\ grouped' = [k \in Keys |-> GroupByKeyOnly(reified, k)]
  /\ pc' = "group_by_window"
  /\ UNCHANGED <<error, windowed, reified, current, state, drained,
                 doneKeys, panes, GroupFrame>>

\* GroupAlsoByWindow.process(k, vs): a fresh driver and state, then
\* driver.process_elements
ProcessElements(k) ==
  LET st == InMemoryUnmergedState
      vs == grouped[k]
  IN /\ pc = "group_by_window"
     /\ current = "None"
     /\ k \in GroupedKeys(reified) \ doneKeys
     /\ current' = k
     /\ panes' = panes \o GroupAlsoByWindow_yield(k,
                            process_elements_out(windowing, st, vs))
     /\ state' = process_elements_state(windowing, st, vs)
     /\ drained' = <<>>
     /\ UNCHANGED <<pc, error, windowed, reified, grouped, doneKeys,
                    GroupFrame>>

\* `while state.timers:` entered: state.get_and_clear_timers()
GetAndClearTimers ==
  /\ pc = "group_by_window"
  /\ current # "None"
  /\ drained = <<>>
  /\ while_state_timers(state)
  /\ drained' = get_and_clear_timers(state)
  /\ state' = [state EXCEPT !.timers = {}]
  /\ UNCHANGED <<pc, error, windowed, reified, grouped, current, doneKeys,
                 panes, GroupFrame>>

\* the body of the for loop: driver.process_timer on the next drained timer
ProcessTimer ==
  /\ pc = "group_by_window"
  /\ current # "None"
  /\ drained # <<>>
  /\ panes' = panes \o GroupAlsoByWindow_yield(current,
                         process_timer_out(windowing, state,
                                           for_timer(drained)))
  /\ state' = process_timer_state(windowing, state, for_timer(drained))
  /\ drained' = for_rest(drained)
  /\ UNCHANGED <<pc, error, windowed, reified, grouped, current, doneKeys,
                 GroupFrame>>

\* `while state.timers:` left: the generator is exhausted
ProcessReturn ==
  /\ pc = "group_by_window"
  /\ current # "None"
  /\ drained = <<>>
  /\ ~while_state_timers(state)
  /\ doneKeys' = doneKeys \cup {current}
  /\ current' = "None"
  /\ UNCHANGED <<pc, error, windowed, reified, grouped, state, drained,
                 panes, GroupFrame>>

\* every key was processed
GroupDone ==
  /\ pc = "group_by_window"
  /\ current = "None"
  /\ doneKeys = GroupedKeys(reified)
  /\ pc' = "finished"
  /\ UNCHANGED <<error, gvars, cvars, dvars, wvars>>

NextGroup ==
  \/ WindowInto
  \/ WindowIntoDone
  \/ ReifyWindows
  \/ GroupByKeyOnlyStep
  \/ \E k \in Keys : ProcessElements(k)
  \/ GetAndClearTimers
  \/ ProcessTimer
  \/ ProcessReturn
  \/ GroupDone

SpecGroup == InitGroup /\ [][NextGroup]_vars

\* ======================================= GroupAlsoByWindow.process calls
\* One call of GroupAlsoByWindow.process per key of the grouped input. Each
\* call is a generator; the calls are advanced in any order, one step of
\* one call at a time.
DriveTriggerFns == TriggerFns \cup {"AfterWatermark"}

DriveWindowings ==
  Windowings \cup
  {Windowing_init(wf, "AfterWatermark", m) :
     wf \in WindowFns, m \in AccumulationModes}

\* the values grouped under key k, given their timestamps: the i-th value
\* of the key is the pair (k, i). Key "a" has up to MaxVs values, key "b"
\* at most one.
OtherTimestamps == {<<>>} \cup {<<t>> : t \in Timestamps}

GroupedValues(windowfn, k, ts) ==
  [i \in 1..Len(ts) |->
     WindowedValue(<<k, i>>, ts[i], WindowFn_assign(windowfn, ts[i]))]

InitDrive ==
  /\ pc = "drive"
  /\ error = ""
  /\ windowing \in DriveWindowings
  /\ args = NoArgs
  /\ windowings = <<windowing>>
  /\ is_default_ret = "None"
  /\ \E tsa \in SeqsUpTo(Timestamps, MaxVs) :
       \E tsb \in OtherTimestamps :
         grouped = [k \in Keys |->
                      GroupedValues(windowing.windowfn, k,
                                    IF k = "a" THEN tsa ELSE tsb)]
  /\ pcoll = <<>>
  /\ windowed = <<>>
  /\ reified = <<>>
  /\ current = "None"
  /\ state = InMemoryUnmergedState
  /\ drained = <<>>
  /\ doneKeys = {}
  /\ panes = <<>>
  /\ DriveIdle
  /\ TransformsIdle
  /\ combinefn = "sum"
  /\ CombineIdle
  /\ DoFnIdle

DriveFrame == <<pc, error, cvars, dvars, wvars, pcoll, windowed, reified,
                grouped, current, state, drained, doneKeys, tvars>>

Logged(timers, round) == {[timer |-> t, round |-> round] : t \in timers}

\* the call for key k starts: a fresh state, then driver.process_elements
CallProcessElements(k) ==
  LET st == InMemoryUnmergedState
      vs == grouped[k]
      st2 == process_elements_state(windowing, st, vs)
  IN /\ pc = "drive"
     /\ calls[k].pc = "ready"
     /\ vs # <<>>
     /\ panes' = panes \o GroupAlsoByWindow_yield(k,
                            process_elements_out(windowing, st, vs))
     /\ states' = [states EXCEPT ![process_state(k)] = st2]
     /\ calls' = [calls EXCEPT ![k].pc = "loop"]
     /\ timerlog' = [timerlog EXCEPT ![k].registered = Logged(st2.timers, 0)]
     /\ UNCHANGED DriveFrame

\* `while state.timers:` entered: state.get_and_clear_timers()
CallGetAndClearTimers(k) ==
  LET st == states[process_state(k)]
  IN /\ pc = "drive"
     /\ calls[k].pc = "loop"
     /\ calls[k].drained = <<>>
     /\ while_state_timers(st)
     /\ calls' = [calls EXCEPT ![k].drained = get_and_clear_timers(st),
                               ![k].round = @ + 1]
     /\ states' = [states EXCEPT ![process_state(k)].timers = {}]
     /\ UNCHANGED <<panes, timerlog, DriveFrame>>

\* the body of the for loop: driver.process_timer on the next drained timer
CallProcessTimer(k) ==
  LET st == states[process_state(k)]
      timer == for_timer(calls[k].drained)
      st2 == process_timer_state(windowing, st, timer)
  IN /\ pc = "drive"
     /\ calls[k].pc = "loop"
     /\ calls[k].drained # <<>>
     /\ panes' = panes \o GroupAlsoByWindow_yield(k,
                            process_timer_out(windowing, st, timer))
     /\ states' = [states EXCEPT ![process_state(k)] = st2]
     /\ calls' = [calls EXCEPT ![k].drained = for_rest(@)]
     /\ timerlog' =
          [timerlog EXCEPT
             ![k].delivered =
                Append(@, [timer |-> timer, round |-> calls[k].round]),
             ![k].registered =
                @ \cup Logged(st2.timers \ st.timers, calls[k].round)]
     /\ UNCHANGED DriveFrame

\* `while state.timers:` left: the generator is exhausted
CallReturn(k) ==
  /\ pc = "drive"
  /\ calls[k].pc = "loop"
  /\ calls[k].drained = <<>>
  /\ ~while_state_timers(states[process_state(k)])
  /\ calls' = [calls EXCEPT ![k].pc = "done"]
  /\ UNCHANGED <<panes, states, timerlog, DriveFrame>>

NextDrive ==
  \E k \in Keys :
    \/ CallProcessElements(k)
    \/ CallGetAndClearTimers(k)
    \/ CallProcessTimer(k)
    \/ CallReturn(k)

SpecDrive == InitDrive /\ [][NextDrive]_vars

\* the runner keeps advancing a generator as long as one is not exhausted
SpecDriveFair == SpecDrive /\ WF_vars(NextDrive)

\* ================================================ CombineGlobally.apply
\* a CombineGlobally transform is configured (with_defaults,
\* without_defaults, as_singleton_view), applied to a PCollection whose
\* elements all sit in one window, and the pipeline is run
InitGlobally ==
  /\ pc = "transform"
  /\ error = ""
  /\ combinefn \in CombineFns
  /\ elements \in SeqsUpTo(Values, MaxLen)
  /\ runtime_type_check \in BOOLEAN
  /\ windowing \in {Windowing_init(wf, "None", "None") : wf \in WindowFns}
  /\ args = NoArgs
  /\ windowings = <<windowing>>
  /\ is_default_ret = "None"
  /\ remaining = {}
  /\ accumulator = EMPTY
  /\ folds = 0
  /\ accumulators = <<>>
  /\ allFolded = TRUE
  /\ call = NoCall
  /\ output = EMPTY
  /\ p_context_element = NoElement
  /\ result = NoResult
  /\ loop_k = 0
  /\ trace = <<>>
  /\ extra_args = <<>>
  /\ pcoll = <<>>
  /\ windowed = <<>>
  /\ reified = <<>>
  /\ grouped = [k \in Keys |-> <<>>]
  /\ current = "None"
  /\ state = InMemoryUnmergedState
  /\ drained = <<>>
  /\ doneKeys = {}
  /\ panes = <<>>
  /\ DriveIdle
  /\ TransformsIdle

GloballyFrame == <<cvars, dvars, wvars, pcoll, windowed, reified, grouped,
                   current, state, drained, doneKeys, panes, kvars, pvars,
                   svars, xvars>>

\* the objects after a method of the newest one returned a clone
Cloned(c) ==
  Append([transforms EXCEPT ![Len(transforms)] = c.original], c.clone)

\* with_defaults(has_defaults) and without_defaults(), called on the
\* newest transform: the clone is the transform that goes on
WithDefaults(b) ==
  LET c == clone(transforms[Len(transforms)], "has_defaults", b)
  IN /\ pc = "transform"
     /\ has_defaults # b
     /\ Len(transforms) <= MaxClones
     /\ transforms' = Cloned(c)
     /\ has_defaults' = c.clone.has_defaults
     /\ as_view' = c.clone.as_view
     /\ UNCHANGED <<pc, error, default_value, combined, globally,
                    GloballyFrame>>

\* as_singleton_view(), called on the newest transform
AsSingletonView ==
  LET c == clone(transforms[Len(transforms)], "as_view", TRUE)
  IN /\ pc = "transform"
     /\ ~as_view
     /\ Len(transforms) <= MaxClones
     /\ transforms' = Cloned(c)
     /\ has_defaults' = c.clone.has_defaults
     /\ as_view' = c.clone.as_view
     /\ UNCHANGED <<pc, error, default_value, combined, globally,
                    GloballyFrame>>

\* pcoll | CombineGlobally(fn): apply builds the pipeline, or raises
CombineGloballyApply ==
  LET raises == CombineGlobally_apply_raises(combinefn, has_defaults, as_view,
                                             windowing.windowfn)
  IN /\ pc = "transform"
     /\ IF raises # ""
          THEN /\ pc' = "failed"
               /\ error' = raises
               /\ UNCHANGED default_value
          ELSE /\ pc' = "applied"
               /\ default_value' =
                    IF ~has_defaults /\ ~as_view THEN NO_DEFAULT
                    ELSE CombineGlobally_default(combinefn, has_defaults)
               /\ UNCHANGED error
     /\ UNCHANGED <<has_defaults, as_view, transforms, combined, globally,
                    GloballyFrame>>

\* the pipeline runs
GloballyRun ==
  LET c == Combined(combinefn, runtime_type_check, PyInts(elements))
      out == CombineGlobally_output(has_defaults, as_view, c, default_value)
      raised == {i \in DOMAIN out : Raised(out[i])}
  IN /\ pc = "applied"
     /\ combined' = c
     /\ IF raised # {}
          THEN /\ pc' = "failed"
               /\ error' = out[CHOOSE i \in raised : TRUE].kind
               /\ UNCHANGED globally
          ELSE /\ pc' = "finished"
               /\ globally' = out
               /\ UNCHANGED error
     /\ UNCHANGED <<has_defaults, as_view, transforms, default_value,
                    GloballyFrame>>

NextGlobally ==
  \/ \E b \in BOOLEAN : WithDefaults(b)
  \/ AsSingletonView
  \/ CombineGloballyApply
  \/ GloballyRun

SpecGlobally == InitGlobally /\ [][NextGlobally]_vars

\* ====================================================== Partition.apply
\* pcoll | Partition(partitionfn, n): ApplyPartitionFnFn.process is called
\* on the elements one after another
InitPartition ==
  /\ pc = "partition"
  /\ error = ""
  /\ combinefn = "sum"
  /\ elements \in SeqsUpTo(Values, MaxLen)
  /\ remaining = {}
  /\ accumulator = EMPTY
  /\ folds = 0
  /\ accumulators = <<>>
  /\ allFolded = TRUE
  /\ call = NoCall
  /\ output = EMPTY
  /\ DoFnIdle
  /\ WindowingIdle
  /\ pcoll = <<>>
  /\ windowed = <<>>
  /\ reified = <<>>
  /\ grouped = [k \in Keys |-> <<>>]
  /\ current = "None"
  /\ state = InMemoryUnmergedState
  /\ drained = <<>>
  /\ doneKeys = {}
  /\ panes = <<>>
  /\ DriveIdle
  /\ GloballyIdle
  /\ StagingIdle
  /\ ContextIdle
  /\ partitionfn \in [Values -> PartitionIndexes]
  /\ partition_n \in 0..MaxN
  /\ processed = 0
  /\ side_outputs = <<>>

PartitionFrame == <<cvars, dvars, wvars, pcoll, windowed, reified, grouped,
                    current, state, drained, doneKeys, panes, kvars, bvars,
                    svars, xvars, partitionfn, partition_n>>

\* ApplyPartitionFnFn.process on the next element
PartitionProcess ==
  LET element == elements[processed + 1]
      partition == partitionfn[element]
      raises == ApplyPartitionFnFn_raises(partition, partition_n)
      out == ApplyPartitionFnFn_process(element, partition, partition_n)
  IN /\ pc = "partition"
     /\ processed < Len(elements)
     /\ processed' = processed + 1
     /\ IF raises # ""
          THEN /\ pc' = "failed"
               /\ error' = raises
               /\ UNCHANGED side_outputs
          ELSE /\ side_outputs' =
                    side_outputs \o
                      [i \in 1..Len(out) |->
                         [tag |-> out[i].tag, value |-> out[i].value,
                          no |-> processed + 1]]
               /\ UNCHANGED <<pc, error>>
     /\ UNCHANGED PartitionFrame

\* every element was processed
PartitionDone ==
  /\ pc = "partition"
  /\ processed = Len(elements)
  /\ pc' = "finished"
  /\ UNCHANGED <<error, processed, side_outputs, PartitionFrame>>

NextPartition ==
  \/ PartitionProcess
  \/ PartitionDone

SpecPartition == InitPartition /\ [][NextPartition]_vars

\* ================================================== stage_job_resources
\* one call of stage_job_resources(options), statement by statement
InitStaging ==
  /\ pc = "check_options"
  /\ error = ""
  /\ options \in Options
  /\ ~options.has_extra_packages => options.extra_packages = <<>>
  /\ options.setup_file # Path("/src", File("setup", ".py"))
       => options.build_ok
  /\ copied = <<>>
  /\ temp_dir = {}
  /\ temp_dir_exists = TRUE
  /\ resources = <<>>
  /\ returned = FALSE
  /\ message = ""
  /\ combinefn = "sum"
  /\ CombineIdle
  /\ DoFnIdle
  /\ WindowingIdle
  /\ pcoll = <<>>
  /\ windowed = <<>>
  /\ reified = <<>>
  /\ grouped = [k \in Keys |-> <<>>]
  /\ current = "None"
  /\ state = InMemoryUnmergedState
  /\ drained = <<>>
  /\ doneKeys = {}
  /\ panes = <<>>
  /\ DriveIdle
  /\ GloballyIdle
  /\ PartitionIdle
  /\ ContextIdle

StagingFrame == <<cvars, dvars, wvars, pcoll, windowed, reified, grouped,
                  current, state, drained, doneKeys, panes, kvars, bvars,
                  pvars, xvars, options, returned, temp_dir_exists>>

\* raise RuntimeError naming what
Fails(what) ==
  /\ pc' = "failed"
  /\ error' = "RuntimeError"
  /\ message' = what
  /\ UNCHANGED <<copied, temp_dir, resources>>

\* file_copy(from, staging_location/name) and resources.append(name)
Stages(from, name, content, nextpc) ==
  /\ copied' = Append(copied,
                      Copy(from, join(options.staging_location, name), content))
  /\ resources' = Append(resources, name)
  /\ pc' = nextpc
  /\ UNCHANGED <<error, message>>

Skips(nextpc) ==
  /\ pc' = nextpc
  /\ UNCHANGED <<error, message, copied, temp_dir, resources>>

\* the two required options
CheckOptions ==
  /\ pc = "check_options"
  /\ IF required_option(options) # ""
       THEN Fails(required_option(options))
     ELSE Skips("requirements_file")
  /\ UNCHANGED StagingFrame

\* `if setup_options.requirements_file is not None:`
StageRequirementsFile ==
  /\ pc = "requirements_file"
  /\ IF options.requirements_file = NoPath THEN Skips("setup_file")
     ELSE IF requirements_file_raises(options) # ""
       THEN Fails("requirements_file")
     ELSE /\ Stages(options.requirements_file, REQUIREMENTS_FILE, <<>>,
                    "setup_file")
          /\ UNCHANGED temp_dir
  /\ UNCHANGED StagingFrame

\* `if setup_options.setup_file is not None:` the package is built in the
\* temporary directory and copied
StageSetupFile ==
  /\ pc = "setup_file"
  /\ IF options.setup_file = NoPath THEN Skips("extra_packages")
     ELSE IF setup_file_raises(options) # "" THEN Fails("setup_file")
     ELSE /\ temp_dir' = temp_dir \cup {File("sdist", ".tar.gz")}
          /\ Stages(Path("temp_dir", File("sdist", ".tar.gz")),
                    WORKFLOW_TARBALL_FILE, <<>>, "extra_packages")
  /\ UNCHANGED StagingFrame

\* the packages staged so far by the loop of _stage_extra_packages
PackagesStaged ==
  Cardinality({i \in DOMAIN copied : copied[i].from \in Packages})

\* _stage_extra_packages: one iteration of `for package in extra_packages`
StageExtraPackage ==
  LET i == PackagesStaged + 1
      package == options.extra_packages[i]
  IN /\ pc = "extra_packages"
     /\ options.has_extra_packages
     /\ i <= Len(options.extra_packages)
     /\ IF extra_package_raises(package) # "" THEN Fails("extra_packages")
        ELSE /\ Stages(package, staged_package(options.extra_packages, i),
                       <<>>, "extra_packages")
             /\ UNCHANGED temp_dir
     /\ UNCHANGED StagingFrame

\* _stage_extra_packages: extra_packages.txt is written and copied
StageExtraPackagesFile ==
  /\ pc = "extra_packages"
  /\ IF ~options.has_extra_packages
       THEN Skips("save_main_session")
     ELSE /\ PackagesStaged = Len(options.extra_packages)
          /\ temp_dir' = temp_dir \cup {EXTRA_PACKAGES_FILE}
          /\ Stages(Path("temp_dir", EXTRA_PACKAGES_FILE),
                    EXTRA_PACKAGES_FILE,
                    ExtraPackagesLines(options.extra_packages),
                    "save_main_session")
  /\ UNCHANGED StagingFrame

\* `if setup_options.save_main_session:`
StageMainSession ==
  /\ pc = "save_main_session"
  /\ IF ~options.save_main_session THEN Skips("sdk_location")
     ELSE /\ temp_dir' = temp_dir \cup {PICKLED_MAIN_SESSION_FILE}
          /\ Stages(Path("temp_dir", PICKLED_MAIN_SESSION_FILE),
                    PICKLED_MAIN_SESSION_FILE, <<>>, "sdk_location")
  /\ UNCHANGED StagingFrame

\* `if hasattr(setup_options, 'sdk_location') and ...sdk_location:`
StageSdkTarball ==
  /\ pc = "sdk_location"
  /\ IF options.sdk_location = "" THEN Skips("cleanup")
     ELSE IF stage_tarball_from_gcs(options)
       THEN /\ Stages(Path(IF options.sdk_location = "default"
                              THEN "gs://dataflow-sdk-for-python"
                            ELSE options.sdk_location,
                            File("google-cloud-dataflow-python-sdk", ".tgz")),
                      DATAFLOW_SDK_TARBALL_FILE, <<>>, "cleanup")
            /\ UNCHANGED temp_dir
     ELSE IF isfile(sdk_path(options))
       THEN /\ Stages(sdk_path(options), DATAFLOW_SDK_TARBALL_FILE, <<>>,
                      "cleanup")
            /\ UNCHANGED temp_dir
     ELSE Fails("sdk_location")
  /\ UNCHANGED StagingFrame

\* shutil.rmtree(temp_dir); return resources
StagingReturn ==
  /\ pc = "cleanup"
  /\ temp_dir' = {}
  /\ temp_dir_exists' = FALSE
  /\ returned' = TRUE
  /\ pc' = "returned"
  /\ UNCHANGED <<error, message, copied, resources, cvars, dvars, wvars,
                 pcoll, windowed, reified, grouped, current, state, drained,
                 doneKeys, panes, kvars, bvars, pvars, xvars, options>>

NextStaging ==
  \/ CheckOptions
  \/ StageRequirementsFile
  \/ StageSetupFile
  \/ StageExtraPackage
  \/ StageExtraPackagesFile
  \/ StageMainSession
  \/ StageSdkTarball
  \/ StagingReturn

SpecStaging == InitStaging /\ [][NextStaging]_vars

\* ==================================================== DoFnProcessContext
\* a context is constructed, with or without an element, and the runner
\* sets and clears its element
WindowedValues ==
  {WindowedValue(v, t, WindowFn_assign(wf, t)) :
     v \in Values, t \in Timestamps, wf \in WindowFns}

InitContext ==
  /\ pc = "new"
  /\ error = ""
  /\ p_context = <<>>
  /\ set_elements = <<>>
  /\ combinefn = "sum"
  /\ CombineIdle
  /\ DoFnIdle
  /\ WindowingIdle
  /\ DriveIdle
  /\ GloballyIdle
  /\ PartitionIdle
  /\ StagingIdle
  /\ pcoll = <<>>
  /\ windowed = <<>>
  /\ reified = <<>>
  /\ grouped = [k \in Keys |-> <<>>]
  /\ current = "None"
  /\ state = InMemoryUnmergedState
  /\ drained = <<>>
  /\ doneKeys = {}
  /\ panes = <<>>

ContextFrame == <<error, cvars, dvars, wvars, pcoll, windowed, reified,
                  grouped, current, state, drained, doneKeys, panes, kvars,
                  bvars, pvars, svars>>

\* DoFnProcessContext(label, element)
NewContext(element) ==
  /\ pc = "new"
  /\ p_context' = DoFnProcessContext_init("label", element, None)
  /\ set_elements' = <<element>>
  /\ pc' = "context"
  /\ UNCHANGED ContextFrame

\* context.set_element(windowed_value)
SetElement(windowed_value) ==
  /\ pc = "context"
  /\ Len(set_elements) <= MaxSets
  /\ p_context' = DoFnProcessContext_set_element(p_context, windowed_value)
  /\ set_elements' = Append(set_elements, windowed_value)
  /\ UNCHANGED <<pc, ContextFrame>>

NextContext ==
  \/ \E wv \in WindowedValues : NewContext(Some(wv))
  \/ NewContext(None)
  \/ \E wv \in WindowedValues : SetElement(Some(wv))
  \/ SetElement(None)

SpecContext == InitContext /\ [][NextContext]_vars

\* ================================================================ claims
AssociativeCommutative == {"sum", "multiply", "AverageFn"}

\* C1: for sum, product and the (sum, count) mean, whatever way the input is
\* split into one or more batches that each go through add_inputs, the
\* output extracted from the merged batch accumulators equals
\* apply(full sequence).
C1_PartitionedEqualsApply ==
  (/\ pc = "done"
   /\ combinefn \in AssociativeCommutative
   /\ allFolded
   /\ Len(accumulators) >= 1)
  => output = apply(combinefn, PyInts(elements))

C1_Witness ==
  /\ pc = "done"
  /\ combinefn = "AverageFn"
  /\ allFolded
  /\ accumulators = <<PyPair(3, 2), PyPair(1, 1)>>
  /\ elements = <<1, 1, 2>>
  /\ output = PyVal("float", 4, 3)

\* C2: for a non-empty value list the three-accumulator path of
\* CombineValuesDoFn.process (runtime_type_check off) returns the pair
\* (key, combinefn.apply(values)) of the single-shot path.
C2_PerKeyPathEqualsApply ==
  (/\ pc \in {"processed", "failed"}
   /\ ~runtime_type_check
   /\ Len(p_context_element[2]) >= 1)
  => result = <<p_context_element[1],
                apply(combinefn, PyInts(p_context_element[2]))>>

C2_Witness ==
  /\ pc = "processed"
  /\ ~runtime_type_check
  /\ Len(p_context_element[2]) = 4
  /\ combinefn = "multiply"
  /\ result = <<"b", PyInt(4)>>

\* C8: for a callable-wrapped reducer extract_output of the EMPTY sentinel
\* is the wrapped function applied to the empty sequence (0 for sum, 1 for
\* the product), and extract_output of any other accumulator is that
\* accumulator.
C8_ExtractOutput ==
  (call.op = "extract_output" /\ combinefn \in Callables)
  => /\ call.acc = EMPTY => call.ret = Fn(combinefn, <<>>)
     /\ (call.acc = EMPTY /\ combinefn = "sum") => output = PyInt(0)
     /\ (call.acc = EMPTY /\ combinefn = "multiply") => output = PyInt(1)
     /\ call.acc # EMPTY => (call.ret = call.acc /\ output = call.acc)

C8_Witness ==
  /\ call.op = "extract_output"
  /\ call.acc = EMPTY
  /\ combinefn = "sum"
  /\ output = PyInt(0)

\* C9: for a callable-wrapped reducer add_inputs(acc, elements) is
\* fn(elements) when acc is EMPTY and fn(acc followed by elements)
\* otherwise, and once add_inputs has returned the accumulator of the batch
\* is not the EMPTY sentinel.
C9_AddInputs ==
  /\ (call.op = "add_inputs" /\ combinefn \in Callables)
     => /\ call.acc = EMPTY => call.ret = Fn(combinefn, call.elems)
        /\ call.acc # EMPTY
             => call.ret = Fn(combinefn, <<call.acc>> \o call.elems)
        /\ call.ret # EMPTY
  /\ (pc = "batch" /\ folds >= 1 /\ combinefn \in Callables)
     => accumulator # EMPTY

C9_Witness ==
  /\ call.op = "add_inputs"
  /\ combinefn = "sum"
  /\ call.acc = PyInt(2)
  /\ call.elems = <<PyInt(1), PyInt(2)>>
  /\ accumulator = PyInt(5)
  /\ folds = 2

\* ------------------------------------------------------------ GroupByKey
\* how often each value occurs in a sequence of values
SeqBag(seq) ==
  [v \in GroupValues |-> Cardinality({i \in DOMAIN seq : seq[i] = v})]

\* the reference grouping: how often (k, v) occurs in the input
RefBag(k) ==
  [v \in GroupValues |->
     Cardinality({i \in DOMAIN pcoll : pcoll[i].value = KV(k, v)})]

RefKeys ==
  {pcoll[i].value.k : i \in {j \in DOMAIN pcoll : pcoll[j].value.shape = "KV"}}

PanesOf(k) == {i \in DOMAIN panes : panes[i].value.k = k}

\* C3: under the default windowing GroupByKey outputs one record per
\* distinct key of the input, holding the multiset of the values input
\* under that key: the reference grouping, which does not depend on the
\* order of the input.
C3_GroupByKeyIsReferenceGrouping ==
  (pc = "finished" /\ Windowing_is_default(windowing))
  => /\ \A k \in RefKeys :
          /\ Cardinality(PanesOf(k)) = 1
          /\ \A i \in PanesOf(k) : SeqBag(panes[i].value.values) = RefBag(k)
     /\ \A i \in DOMAIN panes : panes[i].value.k \in RefKeys

C3_Witness ==
  /\ pc = "finished"
  /\ Windowing_is_default(windowing)
  /\ Len(pcoll) = 3
  /\ Len(panes) = 2
  /\ \E i \in DOMAIN panes :
       panes[i].value = [k |-> "b", values |-> <<2, 2>>]

\* the values of key k assigned to window w by WindowInto, as a multiset
AssignedBag(k, w) ==
  [v \in GroupValues |->
     Cardinality({i \in DOMAIN windowed :
                    /\ windowed[i].value = KV(k, v)
                    /\ w \in windowed[i].windows})]

EmptyBag == [v \in GroupValues |-> 0]

PanesOfWindow(k, w) ==
  {i \in DOMAIN panes : panes[i].value.k = k /\ panes[i].windows = <<w>>}

\* C4: with a default Windowing no pane is emitted before the whole input
\* was reified and grouped, and once a key is processed every window that
\* received one of its values has exactly one pane, holding all the values
\* of the key assigned to the window, and no other window has a pane.
C4_DefaultWindowingOnePane ==
  Windowing_is_default(windowing)
  => /\ panes # <<>>
          => /\ pc \in {"group_by_window", "finished"}
             /\ Len(reified) = Len(pcoll)
     /\ \A k \in doneKeys : \A w \in AllWindows :
          IF AssignedBag(k, w) = EmptyBag
            THEN PanesOfWindow(k, w) = {}
          ELSE /\ Cardinality(PanesOfWindow(k, w)) = 1
               /\ \A i \in PanesOfWindow(k, w) :
                    SeqBag(panes[i].value.values) = AssignedBag(k, w)
     /\ \A i \in DOMAIN panes :
          panes[i].value.k \in doneKeys \cup {current}

C4_Witness ==
  /\ pc = "finished"
  /\ Windowing_is_default(windowing)
  /\ Len(pcoll) = 3
  /\ pcoll[1].timestamp # pcoll[2].timestamp
  /\ Len(panes) = 1
  /\ panes[1].windows = <<GlobalWindow>>
  /\ Len(panes[1].value.values) = 3

\* C10: ReifyWindows.process fails with TypeCheckError on every element
\* that is not a two-component pair, and for a pair (k, v) emits k with the
\* windowed value of v carrying the element's timestamp and windows.
C10_ReifyShapeError ==
  /\ pc = "failed" => error = "TypeCheckError"
  /\ \A i \in DOMAIN reified :
       /\ windowed[i].value.shape = "KV"
       /\ reified[i] = [k |-> windowed[i].value.k,
                        wv |-> WindowedValue(windowed[i].value.v,
                                             windowed[i].timestamp,
                                             windowed[i].windows)]
  /\ pc \in {"group_by_window", "finished"}
       => \A i \in DOMAIN pcoll : pcoll[i].value.shape = "KV"

\* C11: every pane GroupAlsoByWindow.process emits, from process_elements
\* or from a fired timer, carries exactly one window, is stamped with the
\* end of that window, and holds values of its key that belong to that
\* window (any window's values under the default windowing, whose single
\* pane is the global window's).
C11_PaneStampedWithWindowEnd ==
  \A i \in DOMAIN panes :
    /\ Len(panes[i].windows) = 1
    /\ panes[i].windows[1] \in AllWindows
    /\ panes[i].timestamp = panes[i].windows[1].end
    /\ IF Windowing_is_default(windowing)
         THEN panes[i].windows[1] = GlobalWindow
       ELSE \A v \in GroupValues :
              SeqBag(panes[i].value.values)[v]
                <= AssignedBag(panes[i].value.k, panes[i].windows[1])[v]

\* a pane fired by the end-of-window timer of the second fixed window
C11_Witness ==
  /\ pc = "finished"
  /\ \E i \in DOMAIN panes :
       /\ windowing.triggerfn = "DefaultTrigger"
       /\ panes[i].windows = <<IntervalWindow(FixedSize, 2 * FixedSize)>>
       /\ panes[i].timestamp = 2 * FixedSize
       /\ Len(panes[i].value.values) = 2

\* C14: whatever the windowing, while some element of the input has not
\* been through WindowInto, ReifyWindows and GroupByKeyOnly no call of
\* GroupAlsoByWindow.process has started and no pane of any key exists:
\* once a call started or a pane exists, every input element is reified
\* and sits in the group of its key.
C14_GroupByKeyOnlyIsBarrier ==
  (panes # <<>> \/ current # "None" \/ doneKeys # {})
  => /\ Len(windowed) = Len(pcoll)
     /\ Len(reified) = Len(pcoll)
     /\ \A k \in Keys :
          /\ grouped[k] = GroupByKeyOnly(reified, k)
          /\ Len(grouped[k]) =
               Cardinality({i \in DOMAIN pcoll : pcoll[i].value.k = k})

\* the first pane, of a policy that is not the default one, over an input
\* of three elements under two keys
C14_Witness ==
  /\ ~Windowing_is_default(windowing)
  /\ Len(pcoll) = 3
  /\ RefKeys = Keys
  /\ Len(panes) = 1
  /\ current # "None"
  /\ doneKeys = {}

\* ------------------------------------------------------- CombineGlobally
\* C15: CombineGlobally with defaults, not as a view, over an input in the
\* global window ends with exactly one output element, the value of
\* combine_fn.apply on all the input elements (on the empty list for an
\* empty input), or with the exception that call raises; without defaults
\* an empty input gives an empty output.
C15_GloballyOneOutput ==
  /\ (/\ pc \in {"failed", "finished"}
      /\ has_defaults
      /\ ~as_view
      /\ windowing.windowfn = "GlobalWindows")
     => IF Raised(apply(combinefn, PyInts(elements)))
          THEN /\ pc = "failed"
               /\ error = apply(combinefn, PyInts(elements)).kind
        ELSE /\ pc = "finished"
             /\ Len(globally) = 1
             /\ globally[1] = apply(combinefn, PyInts(elements))
  /\ (pc = "finished" /\ ~has_defaults /\ ~as_view /\ elements = <<>>)
     => globally = <<>>

\* ------------------------------------------------------------- Partition
\* the numbers of the elements emitted on the output tagged str(t)
PartitionOf(t) ==
  {side_outputs[i].no :
     i \in {j \in DOMAIN side_outputs : side_outputs[j].tag = ToString(t)}}

\* C16: every element processed without error was emitted once,
\* unchanged, on the declared output tagged with the index the PartitionFn
\* gave it, 0 <= p < n; an index outside [0, n) ends the run with
\* ValueError and no emission for that element; after a run without error
\* the n partitions are pairwise disjoint and together hold every input
\* element once.
C16_PartitionExactlyOnce ==
  LET ok == IF pc = "failed" THEN processed - 1 ELSE processed
  IN /\ Len(side_outputs) = ok
     /\ \A i \in DOMAIN side_outputs :
          /\ side_outputs[i].no = i
          /\ side_outputs[i].value = elements[i]
          /\ side_outputs[i].tag \in with_outputs(partition_n)
          /\ side_outputs[i].tag = ToString(partitionfn[elements[i]])
          /\ 0 <= partitionfn[elements[i]]
          /\ partitionfn[elements[i]] < partition_n
     /\ pc = "failed"
          => /\ error = "ValueError"
             /\ \/ partitionfn[elements[processed]] < 0
                \/ partitionfn[elements[processed]] >= partition_n
     /\ pc = "finished"
          => /\ UNION {PartitionOf(t) : t \in 0..(partition_n - 1)}
                  = DOMAIN elements
             /\ \A t, u \in 0..(partition_n - 1) :
                  t # u => PartitionOf(t) \cap PartitionOf(u) = {}

\* three elements split over two partitions, none empty
C16_Witness ==
  /\ pc = "finished"
  /\ partition_n = 2
  /\ Len(elements) = 3
  /\ PartitionOf(0) # {}
  /\ PartitionOf(1) # {}
  /\ elements[1] = elements[3]

\* --------------------------------------------------- stage_job_resources
\* C17: a call with no staging location raises RuntimeError naming the
\* staging location, also when the temp location is missing too; a call
\* with a staging location and no temp location raises RuntimeError naming
\* the temp location; in both cases no file_copy call was made.
C17_MissingLocationRaises ==
  /\ (pc # "check_options" /\ options.staging_location = "None")
       => /\ pc = "failed"
          /\ error = "RuntimeError"
          /\ message = "staging_location"
          /\ copied = <<>>
          /\ ~returned
  /\ (/\ pc # "check_options"
      /\ options.staging_location # "None"
      /\ options.temp_location = "None")
       => /\ pc = "failed"
          /\ error = "RuntimeError"
          /\ message = "temp_location"
          /\ copied = <<>>
          /\ ~returned

\* both locations missing, with files to stage
C17_Witness ==
  /\ pc = "failed"
  /\ message = "staging_location"
  /\ options.staging_location = "None"
  /\ options.temp_location = "None"
  /\ options.requirements_file = Path("/src", File("reqs", ".txt"))
  /\ options.save_main_session

\* the names the claim lists for the options, in its order
ExpectedResources ==
  (IF options.requirements_file # NoPath THEN <<REQUIREMENTS_FILE>> ELSE <<>>)
  \o (IF options.setup_file # NoPath THEN <<WORKFLOW_TARBALL_FILE>> ELSE <<>>)
  \o (IF options.has_extra_packages
        THEN [i \in DOMAIN options.extra_packages |->
                options.extra_packages[i].name] \o <<EXTRA_PACKAGES_FILE>>
      ELSE <<>>)
  \o (IF options.save_main_session THEN <<PICKLED_MAIN_SESSION_FILE>>
      ELSE <<>>)
  \o (IF options.sdk_location # "" THEN <<DATAFLOW_SDK_TARBALL_FILE>>
      ELSE <<>>)

\* C18: when stage_job_resources returns, the list returned names, in
\* order, the destination of each file_copy call made, every destination
\* lies in the staging location, the list is the one the options call for
\* (requirements.txt, workflow.tar.gz, the package basenames in the order
\* given and extra_packages.txt, the pickled main session, the SDK
\* tarball), and the extra_packages.txt copied holds the package
\* basenames in the order given.
C18_ResourcesInFixedOrder ==
  returned
  => /\ Len(copied) = Len(resources)
     /\ \A i \in DOMAIN copied :
          /\ basename(copied[i].to) = resources[i]
          /\ copied[i].to.dir = options.staging_location
          /\ copied[i].to.name = EXTRA_PACKAGES_FILE
               => copied[i].content =
                    [j \in DOMAIN options.extra_packages |->
                       options.extra_packages[j].name]
     /\ resources = ExpectedResources

\* all five kinds of resource, with two packages of different names
C18_Witness ==
  /\ returned
  /\ Len(resources) = 7
  /\ resources[3] = File("xyz", ".tar.gz")
  /\ resources[4] = File("abc", ".tar.gz")
  /\ options.sdk_location = "/sdk"

\* ---------------------------------------------------------- the drive loop
SeqSet(seq) == {seq[i] : i \in DOMAIN seq}

\* the timers of key k: pending in its state, drained and waiting in the
\* for loop, delivered to process_timer, registered so far
PendingTimers(k) == states[process_state(k)].timers
DrainedTimers(k) == SeqSet(calls[k].drained)
DeliveredTimers(k) ==
  {timerlog[k].delivered[i].timer : i \in DOMAIN timerlog[k].delivered}
RegisteredTimers(k) == {r.timer : r \in timerlog[k].registered}

\* C12: every timer the trigger registered is taken out of the pending
\* set once and handed to process_timer once: at any moment it is in
\* exactly one of pending, drained-and-waiting, delivered; no timer is
\* delivered twice; when the call returns every registered timer has been
\* delivered.
C12_TimersDeliveredOnce ==
  \A k \in Keys :
    /\ \A i, j \in DOMAIN timerlog[k].delivered :
         i # j => timerlog[k].delivered[i].timer
                    # timerlog[k].delivered[j].timer
    /\ calls[k].pc # "ready"
         => /\ RegisteredTimers(k) =
                 PendingTimers(k) \cup DrainedTimers(k) \cup DeliveredTimers(k)
            /\ PendingTimers(k) \cap DrainedTimers(k) = {}
            /\ PendingTimers(k) \cap DeliveredTimers(k) = {}
            /\ DrainedTimers(k) \cap DeliveredTimers(k) = {}
            /\ Len(calls[k].drained) = Cardinality(DrainedTimers(k))
    /\ calls[k].pc = "done" => RegisteredTimers(k) = DeliveredTimers(k)

\* a finished call that delivered the end-of-window timers of two windows
\* and the late timer each of them registered
C12_Witness ==
  /\ calls["a"].pc = "done"
  /\ windowing.triggerfn = "AfterWatermark"
  /\ Len(timerlog["a"].delivered) = 2 * (1 + MaxFollowUps)
  /\ \E i \in DOMAIN timerlog["a"].delivered :
       timerlog["a"].delivered[i].timer.tag = "LATE"

\* the panes of key k for window w, in emission order, as sets of values
WindowPanes(k, w) ==
  LET sel == SelectSeq(panes,
                       LAMBDA q : q.value.k = k /\ q.windows = <<w>>)
  IN [i \in DOMAIN sel |-> SeqSet(sel[i].value.values)]

\* the values buffered for window w in the state of the call for key k
BufferOf(k, w) ==
  LET st == states[process_state(k)]
  IN IF w \in DOMAIN st.buffers THEN SeqSet(st.buffers[w]) ELSE {}

\* C13: in DISCARDING mode a value that was emitted in a pane is no longer
\* buffered and no two panes of one window share a value; in ACCUMULATING
\* mode every value emitted for a window stays buffered and each later
\* pane of the window contains every value of the earlier ones.
C13_BufferFollowsAccumulationMode ==
  \A k \in Keys : \A w \in AllWindows :
    LET ps == WindowPanes(k, w)
    IN IF windowing.accumulation_mode = "DISCARDING"
         THEN /\ \A i \in DOMAIN ps : ps[i] \cap BufferOf(k, w) = {}
              /\ \A i, j \in DOMAIN ps : i < j => ps[i] \cap ps[j] = {}
       ELSE /\ \A i \in DOMAIN ps : ps[i] \subseteq BufferOf(k, w)
            /\ \A i, j \in DOMAIN ps : i < j => ps[i] \subseteq ps[j]

\* DISCARDING: an early pane of two values, then the third value alone at
\* the end of the window
C13_Witness ==
  /\ windowing.accumulation_mode = "DISCARDING"
  /\ windowing.triggerfn = "AfterWatermark"
  /\ calls["a"].pc = "done"
  /\ Len(WindowPanes("a", GlobalWindow)) = 2
  /\ WindowPanes("a", GlobalWindow)[1] = {<<"a", 1>>, <<"a", 2>>}
  /\ WindowPanes("a", GlobalWindow)[2] = {<<"a", 3>>}

\* C19: every call of GroupAlsoByWindow.process that entered the drive
\* loop leaves it; it leaves only with no timer pending and none waiting
\* in the for loop; a timer is delivered in a later round than the round
\* in which it was registered.
C19_DriveLoopTerminates ==
  /\ \A k \in Keys : (calls[k].pc = "loop") ~> (calls[k].pc = "done")
  /\ [](\A k \in Keys :
          /\ calls[k].pc = "done"
               => /\ PendingTimers(k) = {}
                  /\ calls[k].drained = <<>>
                  /\ RegisteredTimers(k) = DeliveredTimers(k)
          /\ \A i \in DOMAIN timerlog[k].delivered :
               \E r \in timerlog[k].registered :
                 /\ r.timer = timerlog[k].delivered[i].timer
                 /\ r.round < timerlog[k].delivered[i].round)

\* a call that returned after MaxFollowUps + 1 rounds, the last one
\* delivering a timer registered while a timer was processed
C19_Witness ==
  /\ calls["b"].pc = "done"
  /\ calls["b"].round = 1 + MaxFollowUps
  /\ \E r \in timerlog["b"].registered : r.round = MaxFollowUps
  /\ \E i \in DOMAIN timerlog["b"].delivered :
       /\ timerlog["b"].delivered[i].round = 1 + MaxFollowUps
       /\ timerlog["b"].delivered[i].timer.tag = "LATE"

\* GroupAlsoByWindow.process(k, vs) run alone from start to end: the
\* WindowedValues it yields
RECURSIVE DriveLoop(_, _, _, _)
DriveLoop(policy, k, st, timers) ==
  IF timers # <<>>
    THEN GroupAlsoByWindow_yield(k, process_timer_out(policy, st, Head(timers)))
           \o DriveLoop(policy, k,
                        process_timer_state(policy, st, Head(timers)),
                        Tail(timers))
  ELSE IF st.timers # {}
    THEN DriveLoop(policy, k, [st EXCEPT !.timers = {}],
                   get_and_clear_timers(st))
  ELSE <<>>

GroupAlsoByWindow_process(policy, k, vs) ==
  GroupAlsoByWindow_yield(k,
      process_elements_out(policy, InMemoryUnmergedState, vs))
    \o DriveLoop(policy, k,
                 process_elements_state(policy, InMemoryUnmergedState, vs),
                 <<>>)

KeyPanes(k) == SelectSeq(panes, LAMBDA q : q.value.k = k)

\* C20: whatever the order or interleaving of the calls for different
\* keys, the panes emitted for a key are those its call yields when run
\* alone on that key's values: a prefix of them while the call runs, all
\* of them once it returned; and a call that has not started has emitted
\* nothing.
C20_PanesOfKeyIndependent ==
  \A k \in Keys :
    LET alone == GroupAlsoByWindow_process(windowing, k, grouped[k])
    IN /\ Len(KeyPanes(k)) <= Len(alone)
       /\ KeyPanes(k) = SubSeq(alone, 1, Len(KeyPanes(k)))
       /\ calls[k].pc = "done" => KeyPanes(k) = alone
       /\ calls[k].pc = "ready" => KeyPanes(k) = <<>>

\* the call for "b" started and ended between two steps of the call for
\* "a", both with buffered values and timers
C20_Witness ==
  /\ windowing.accumulation_mode = "ACCUMULATING"
  /\ windowing.triggerfn = "AfterWatermark"
  /\ calls["a"].pc = "loop"
  /\ calls["a"].round = 1
  /\ calls["b"].pc = "done"
  /\ Len(panes) >= 4
  /\ panes[1].value.k = "a"
  /\ panes[2].value.k = "b"
  /\ panes[Len(panes)].value.k = "b"
  /\ \E i \in DOMAIN panes : i > 2 /\ panes[i].value.k = "a"

\* ------------------------------------------------------------- Windowing
\* C5: a Windowing call with a trigger other than the default one and no
\* accumulation mode raises ValueError and builds no object.
C5_NonDefaultTriggerNeedsMode ==
  (args # NoArgs /\ args.triggerfn = "AfterCount"
     /\ args.accumulation_mode = "None")
  => /\ pc = "failed"
     /\ error = "ValueError"
     /\ windowing = NoWindowing

C5_Witness ==
  /\ pc = "failed"
  /\ error = "ValueError"
  /\ args.triggerfn = "AfterCount"
  /\ args.accumulation_mode = "None"
  /\ Len(windowings) = 1

\* C6 as stated: every Windowing built with the default trigger has
\* accumulation mode DISCARDING whatever mode the caller passed.
C6_DefaultTriggerAlwaysDiscarding ==
  (windowing # NoWindowing /\ windowing.triggerfn = "DefaultTrigger")
  => windowing.accumulation_mode = "DISCARDING"

\* C6 amended: a Windowing built with the default trigger has accumulation
\* mode DISCARDING when the caller passed no mode, and the mode the caller
\* passed otherwise.
C6_DefaultTriggerModeFromArgument ==
  (windowing # NoWindowing /\ windowing.triggerfn = "DefaultTrigger")
  => windowing.accumulation_mode =
       IF args.accumulation_mode = "None" THEN "DISCARDING"
       ELSE args.accumulation_mode

C6_Witness ==
  /\ windowing # NoWindowing
  /\ args.triggerfn = "DefaultTrigger"
  /\ args.accumulation_mode = "ACCUMULATING"
  /\ windowing.triggerfn = "DefaultTrigger"
  /\ windowing.accumulation_mode = "ACCUMULATING"

\* C7: is_default() answers true exactly for the policies whose assigner
\* is GlobalWindows, whose trigger is the default one and whose
\* accumulation mode is DISCARDING.
C7_IsDefaultIff ==
  is_default_ret # "None"
  => ((is_default_ret = "True")
        <=> /\ windowing.windowfn = "GlobalWindows"
            /\ windowing.triggerfn = "DefaultTrigger"
            /\ windowing.accumulation_mode = "DISCARDING")

C7_Witness ==
  /\ is_default_ret = "False"
  /\ windowing.windowfn = "GlobalWindows"
  /\ windowing.triggerfn = "DefaultTrigger"
  /\ windowing.accumulation_mode = "ACCUMULATING"

\* C21 as stated: a Windowing call that passes a trigger and omits the
\* accumulation mode raises ValueError, also when the trigger passed equals
\* the default trigger.
C21_GivenTriggerNeedsMode ==
  (args # NoArgs /\ args.triggerfn # "None"
     /\ args.accumulation_mode = "None")
  => /\ pc = "failed"
     /\ error = "ValueError"

\* C21 amended: a Windowing call that omits the accumulation mode raises
\* ValueError exactly when the trigger passed differs from the default
\* trigger; with the default trigger, omitted or passed explicitly, the
\* object is built with mode DISCARDING.
C21_OmittedModeRaisesIffNonDefault ==
  (args # NoArgs /\ args.accumulation_mode = "None")
  => IF args.triggerfn \in {"None", "DefaultTrigger"}
       THEN /\ pc = "pipeline"
            /\ error = ""
            /\ windowing.triggerfn = "DefaultTrigger"
            /\ windowing.accumulation_mode = "DISCARDING"
            /\ windowing.windowfn = args.windowfn
       ELSE /\ pc = "failed"
            /\ error = "ValueError"
            /\ windowing = NoWindowing

C21_Witness ==
  /\ args.triggerfn = "DefaultTrigger"
  /\ args.accumulation_mode = "None"
  /\ pc = "pipeline"
  /\ windowing.triggerfn = "DefaultTrigger"
  /\ windowing.accumulation_mode = "DISCARDING"

\* the values grouped under key k that the assigner put into window w
InputOf(k, w) ==
  {grouped[k][i].value : i \in {j \in DOMAIN grouped[k] :
                                 w \in grouped[k][j].windows}}

\* the windows the state of the call for key k holds a buffer or a timer for
StateWindows(k) ==
  LET st == states[process_state(k)]
  IN (DOMAIN st.buffers) \cup {t.window : t \in st.timers}
       \cup {t.window : t \in SeqSet(calls[k].drained)}

\* C22: every pane emitted for key k and window w holds only values that
\* were input under key k and assigned to window w; a window that got no
\* value of key k has no pane for k and is not in the window state of k.
C22_PaneValuesFromOwnKeyAndWindow ==
  /\ \A i \in DOMAIN panes :
       /\ Len(panes[i].windows) = 1
       /\ panes[i].value.k \in Keys
       /\ SeqSet(panes[i].value.values)
            \subseteq InputOf(panes[i].value.k, panes[i].windows[1])
  /\ \A k \in Keys : \A w \in AllWindows :
       InputOf(k, w) = {}
       => /\ WindowPanes(k, w) = <<>>
          /\ w \notin StateWindows(k)

\* fixed windows: key "a" has values in both windows, key "b" only in the
\* second; both calls have run and "b" has a pane for its one window only
C22_Witness ==
  /\ windowing.windowfn = "FixedWindows"
  /\ calls["a"].pc = "done"
  /\ calls["b"].pc = "done"
  /\ InputOf("a", IntervalWindow(0, FixedSize)) # {}
  /\ InputOf("a", IntervalWindow(FixedSize, 2 * FixedSize)) # {}
  /\ InputOf("b", IntervalWindow(0, FixedSize)) = {}
  /\ Len(WindowPanes("b", IntervalWindow(FixedSize, 2 * FixedSize))) = 1
  /\ Len(WindowPanes("a", IntervalWindow(0, FixedSize))) >= 1

\* ------------------------------------------- CombineValuesDoFn, by call
TraceOf(op) == SelectSeq(trace, LAMBDA c : c.op = op)

Min3(n) == IF n < 3 THEN n ELSE 3

\* the values at the indexes j, j + 3, j + 6, ... (counting from 1)
EveryThird(elems, j) ==
  [i \in 1..((Len(elems) - j) \div 3 + 1) |-> elems[j + 3 * (i - 1)]]

\* C23: the three-accumulator path makes min(3, n) sub-batches, the value
\* at index i (from 0) in sub-batch i mod 3, so that every sub-batch is
\* non-empty and every value is folded exactly once; each sub-batch is
\* folded into a fresh create_accumulator(); merge_accumulators is called
\* once, on the min(3, n) partial accumulators, before extract_output.
C23_RoundRobinSubBatches ==
  (pc \in {"merged", "processed", "failed"} /\ ~runtime_type_check)
  => LET elems == PyInts(p_context_element[2])
         m == Min3(Len(elems))
         adds == TraceOf("add_inputs")
     IN /\ Len(adds) = m
        /\ Len(TraceOf("create_accumulator")) = m
        /\ \A j \in 1..m :
             /\ adds[j].elems # <<>>
             /\ adds[j].elems = EveryThird(elems, j)
             /\ trace[2 * j - 1].op = "create_accumulator"
             /\ trace[2 * j] = adds[j]
             /\ adds[j].acc = trace[2 * j - 1].ret
             /\ adds[j].acc = create_accumulator(combinefn)
        /\ Len(TraceOf("merge_accumulators")) = 1
        /\ trace[2 * m + 1].op = "merge_accumulators"
        /\ trace[2 * m + 1].elems = [j \in 1..m |-> adds[j].ret]
        /\ Len(trace) <= 2 * m + 2
        /\ pc = "processed"
             => /\ Len(trace) = 2 * m + 2
                /\ trace[2 * m + 2].op = "extract_output"
                /\ trace[2 * m + 2].acc = trace[2 * m + 1].ret

\* four values: sub-batches of 2, 1 and 1 values
C23_Witness ==
  /\ pc = "processed"
  /\ ~runtime_type_check
  /\ combinefn = "sum"
  /\ p_context_element[2] = <<1, 2, 0, 2>>
  /\ TraceOf("add_inputs")[1].elems = <<PyInt(1), PyInt(2)>>
  /\ accumulators = <<PyInt(3), PyInt(2), PyInt(0)>>
  /\ result = <<p_context_element[1], PyInt(5)>>

\* C24: for a record (key, empty list) the three-accumulator path calls
\* merge_accumulators with zero accumulators and returns (key, output),
\* output being combinefn.apply([]).
C24_EmptyValueList ==
  (/\ pc \in {"processed", "failed"}
   /\ ~runtime_type_check
   /\ p_context_element[2] = <<>>)
  => /\ Len(TraceOf("merge_accumulators")) = 1
     /\ TraceOf("merge_accumulators")[1].elems = <<>>
     /\ result = <<p_context_element[1], apply(combinefn, <<>>)>>

\* ------------------------------------- CallableWrapperCombineFn, by call
\* C25: for a callable-wrapped reducer add_input(acc, element) returns what
\* add_inputs(acc, [element]) returns, for the EMPTY accumulator and for
\* any other.
C25_AddInputIsAddInputsOfOne ==
  call.op = "add_input"
  => call.ret = CallableWrapperCombineFn_add_inputs_args(
                  combinefn, call.acc, call.elems, extra_args)

\* C26: with extra arguments, extract_output of a fresh accumulator is the
\* wrapped function applied to the empty sequence with those arguments,
\* which is also apply([]) and extract_output(merge_accumulators([])).
C26_EmptyOutputByEveryRoute ==
  (call.op = "extract_output" /\ call.acc = EMPTY)
  => /\ call.ret = FnArgs(combinefn, <<>>, extra_args)
     /\ call.ret = CombineFn_apply_args(combinefn, <<>>, extra_args)
     /\ LET merged == CallableWrapperCombineFn_merge_accumulators_args(
                        combinefn, <<>>, extra_args)
        IN call.ret = IF Raised(merged) THEN merged
                      ELSE CallableWrapperCombineFn_extract_output_args(
                             combinefn, merged, extra_args)

\* C27: the EMPTY sentinel is never among the values a call hands to the
\* wrapped function, and merging a list that holds fresh accumulators
\* returns what merging the list without them returns.
C27_SentinelNeverReachesFn ==
  combinefn # "AverageFn"
  =>
  /\ call.op = "add_inputs"
       => \A i \in DOMAIN union(call.acc, call.elems) :
            union(call.acc, call.elems)[i] # EMPTY
  /\ call.op = "merge_accumulators"
       => /\ \A i \in DOMAIN call.elems : call.elems[i] # EMPTY
          /\ call.ret = CallableWrapperCombineFn_merge_accumulators_args(
                          combinefn,
                          SelectSeq(call.elems, LAMBDA a : a # EMPTY),
                          extra_args)

\* ------------------------------------------------ CombineGlobally, flags
\* C28: CombineGlobally.apply raises ValueError exactly when the transform
\* has defaults, is not a singleton view and the input is not windowed by
\* GlobalWindows (so never for a transform without defaults or made a
\* view); with_defaults, without_defaults and as_singleton_view return a
\* copy with the flag set and leave the flags of the transform they were
\* called on as they were.
C28_ApplyRaisesOnDefaultsOffGlobal ==
  [][/\ (pc = "transform" /\ pc' # "transform")
        => ((pc' = "failed" /\ error' = "ValueError")
              <=> /\ has_defaults
                  /\ ~as_view
                  /\ windowing.windowfn # "GlobalWindows")
     /\ \A i \in DOMAIN transforms : transforms'[i] = transforms[i]
     /\ Len(transforms') > Len(transforms)
        => /\ transforms'[Len(transforms')] # transforms[Len(transforms)]
           /\ has_defaults' = transforms'[Len(transforms')].has_defaults
           /\ as_view' = transforms'[Len(transforms')].as_view]_vars

\* ---------------------------------------------------- DoFnProcessContext
\* C29: a context that is not processing an element (built without one, or
\* after set_element(None)) has element, timestamp and windows equal to
\* None; while an element is set the three are the value, the timestamp
\* and the windows of the windowed value set last.
C29_ContextFieldsNoneOrLastSet ==
  pc = "context"
  => LET last == set_elements[Len(set_elements)]
     IN IF last = None
          THEN \A a \in ElementAttributes : ReadsNone(p_context, a)
        ELSE /\ Reads(p_context, "element", last[1].value)
             /\ Reads(p_context, "timestamp", last[1].timestamp)
             /\ Reads(p_context, "windows", last[1].windows)

\* ------------------------------------------------- staging, on failure
FileErrors == {"requirements_file", "setup_file", "extra_packages",
               "sdk_location"}

\* C30: when stage_job_resources raises RuntimeError for a missing or
\* misnamed file, nothing was copied to the staging location and the
\* temporary directory is deleted, as it is after a call that returned.
C30_StagingAllOrNothing ==
  /\ (pc = "failed" /\ message \in FileErrors)
       => /\ error = "RuntimeError"
          /\ copied = <<>>
          /\ temp_dir = {}
          /\ ~temp_dir_exists
  /\ returned => (temp_dir = {} /\ ~temp_dir_exists)

====
